---------------------------- MODULE Spec2Model ----------------------------
(***************************************************************************)
(* Order lifecycle of the food-delivery backend: the order ledger          *)
(* (create_order, update_order_status, delete_order of OrderService) and   *)
(* the status-transition guard (_validate_status_transition).              *)
(*                                                                         *)
(* Money is held as integers: prices, tips and totals in cents, the        *)
(* intermediate Decimal total in units of 10^-6, discount percentages in   *)
(* hundredths of a percent (Numeric(5, 2)).                                *)
(***************************************************************************)
EXTENDS Integers, Sequences, FiniteSets, TLC

VARIABLES
    engine,         \* the database of settings.DATABASE_URL (database.py)
    users,          \* table users (models/user.py): id -> row
    restaurants,    \* table restaurants (models/restaurant.py): id -> row
    meals,          \* table meals (models/meal.py): id -> row
    coupons,        \* table coupons (models/coupon.py): id -> row
    orders,         \* table orders (models/order.py): id -> row, with the
                    \* order_items and order_status_history rows of the order
    next_order_id,  \* the number of order ids handed out so far, plus one
    session,        \* per worker: the update_order_status request it has
                    \* validated and not yet committed
    response        \* the last response sent

vars == <<engine, users, restaurants, meals, coupons, orders,
          next_order_id, session, response>>

(***************************************************************************)
(* Bounds of the model.                                                    *)
(***************************************************************************)
\* number of orders ever created (order ids are fresh, never reused)
MaxOrders == 1
\* number of request workers handling update_order_status concurrently
MaxSessions == 2
\* the concurrent workers take a new status update for an order only while
\* the order has fewer history rows than this
MaxRows == 3
\* number of cart lines of a request to create_order
MaxLines == 2
\* largest quantity of a cart line
MaxQuantity == 2
\* number of restaurants that exist at a time besides r1 and r2
MaxNewRestaurants == 1
\* number of users that exist at a time besides those of the first state
MaxNewUsers == 1

(***************************************************************************)
(* Enumerations.                                                           *)
(***************************************************************************)
PLACED == "placed"
CANCELED == "canceled"
PROCESSING == "processing"
IN_ROUTE == "in_route"
DELIVERED == "delivered"
RECEIVED == "received"
OrderStatus == {PLACED, CANCELED, PROCESSING, IN_ROUTE, DELIVERED, RECEIVED}

CUSTOMER == "customer"
RESTAURANT_OWNER == "restaurant_owner"
ADMIN == "admin"
UserRole == {CUSTOMER, RESTAURANT_OWNER, ADMIN}

\* a nullable column that holds no value / an Optional argument left out
NULL == "NULL"
\* the result of a query's .first() that matched no row
NoRow == [id |-> NULL]
Found(row) == row # NoRow

(***************************************************************************)
(* The records the store holds before the first order is placed: two       *)
(* customers, two restaurant owners with one restaurant each, one          *)
(* administrator, three meals and two coupons.                             *)
(***************************************************************************)
UserIds == {"c1", "c2", "w1", "w2", "a1"}
RestaurantIds == {"r1", "r2"}
MealIds == {"m1", "m2", "m3"}
CouponIds == {"k1", "k2"}
OrderIds == 1..MaxOrders
Sessions == 1..MaxSessions

\* get_password_hash and verify_password: a hash that holds for the
\* password it was made from and for no other
get_password_hash(password) == "hash of " \o password
verify_password(plain_password, hashed_password) ==
    hashed_password = get_password_hash(plain_password)

User(id, role) ==
    [id |-> id, email |-> id \o "@test.com",
     hashed_password |-> get_password_hash("secret"), role |-> role,
     is_active |-> TRUE, is_blocked |-> FALSE]

Restaurant(id, owner_id) ==
    [id |-> id, owner_id |-> owner_id, is_blocked |-> FALSE]

Meal(id, price, restaurant_id) ==
    [id |-> id, price |-> price, restaurant_id |-> restaurant_id,
     is_blocked |-> FALSE]

Coupon(id, code, discount_percentage, is_active) ==
    [id |-> id, code |-> code, discount_percentage |-> discount_percentage,
     is_active |-> is_active]

(***************************************************************************)
(* Responses: the status code and detail of the HTTPException raised, or   *)
(* the success code of the route.  response is the last response sent.     *)
(***************************************************************************)
OK == [status_code |-> 200, detail |-> <<"OK">>]
HTTPException(status_code, detail) ==
    [status_code |-> status_code, detail |-> detail]

(***************************************************************************)
(* Queries.                                                                *)
(***************************************************************************)
get_order_by_id(order_id) ==
    IF order_id \in DOMAIN orders THEN orders[order_id] ELSE NoRow

get_restaurant_by_id(restaurant_id) ==
    IF restaurant_id \in DOMAIN restaurants
    THEN restaurants[restaurant_id] ELSE NoRow

get_meal_by_id(meal_id) ==
    IF meal_id \in DOMAIN meals THEN meals[meal_id] ELSE NoRow

get_coupon_by_code(code) ==
    IF \E k \in DOMAIN coupons : coupons[k].code = code
    THEN coupons[CHOOSE k \in DOMAIN coupons : coupons[k].code = code]
    ELSE NoRow

\* a dependency that lets a blocked user through
get_current_user_ignores_blocked(user_id) ==
    IF user_id \notin DOMAIN users
    THEN HTTPException(401, <<"User not found">>)
    ELSE IF ~users[user_id].is_active
    THEN HTTPException(403, <<"User is inactive or blocked">>)
    ELSE OK

\* get_current_user: the token's user exists, is active and is not blocked
get_current_user(user_id) ==
    IF user_id \notin DOMAIN users
    THEN HTTPException(401, <<"User not found">>)
    ELSE IF ~users[user_id].is_active \/ users[user_id].is_blocked
    THEN HTTPException(403, <<"User is inactive or blocked">>)
    ELSE OK


(***************************************************************************)
(* Status transition guard.                                                *)
(***************************************************************************)
\* a table that lets an order in route be marked received directly
allowed_transitions_skip_delivered(current_status) ==
    CASE current_status = PLACED -> {CANCELED, PROCESSING}
      [] current_status = PROCESSING -> {CANCELED, IN_ROUTE}
      [] current_status = IN_ROUTE -> {DELIVERED, RECEIVED}
      [] current_status = DELIVERED -> {RECEIVED}
      [] current_status = CANCELED -> {}
      [] current_status = RECEIVED -> {}

\* a table that lets a canceled order be placed again
allowed_transitions_reopen(current_status) ==
    CASE current_status = PLACED -> {CANCELED, PROCESSING}
      [] current_status = PROCESSING -> {CANCELED, IN_ROUTE}
      [] current_status = IN_ROUTE -> {DELIVERED}
      [] current_status = DELIVERED -> {RECEIVED}
      [] current_status = CANCELED -> {PLACED}
      [] current_status = RECEIVED -> {}

\* a table that lets an order in route be taken back to processing
allowed_transitions_back_to_processing(current_status) ==
    CASE current_status = PLACED -> {CANCELED, PROCESSING}
      [] current_status = PROCESSING -> {CANCELED, IN_ROUTE}
      [] current_status = IN_ROUTE -> {DELIVERED, PROCESSING}
      [] current_status = DELIVERED -> {RECEIVED}
      [] current_status = CANCELED -> {}
      [] current_status = RECEIVED -> {}

allowed_transitions(current_status) ==
    CASE current_status = PLACED -> {CANCELED, PROCESSING}
      [] current_status = PROCESSING -> {CANCELED, IN_ROUTE}
      [] current_status = IN_ROUTE -> {DELIVERED}
      [] current_status = DELIVERED -> {RECEIVED}
      [] current_status = CANCELED -> {}
      [] current_status = RECEIVED -> {}

\* customer checks that leave out the ownership check
customer_checks_any_customer(order, new_status, user) ==
    IF new_status \notin {CANCELED, RECEIVED}
    THEN HTTPException(403,
            <<"Customers can only cancel orders or mark them as received">>)
    ELSE IF new_status = CANCELED /\ order.status # PLACED
    THEN HTTPException(400,
            <<"Can only cancel orders that are in PLACED status">>)
    ELSE OK

\* customer checks that let the customer cancel from any status
customer_checks_cancel_anytime(order, new_status, user) ==
    IF user.id # order.customer_id
    THEN HTTPException(403, <<"Not your order">>)
    ELSE IF new_status \notin {CANCELED, RECEIVED}
    THEN HTTPException(403,
            <<"Customers can only cancel orders or mark them as received">>)
    ELSE OK

\* the permission checks of a customer
customer_checks(order, new_status, user) ==
    IF user.id # order.customer_id
    THEN HTTPException(403, <<"Not your order">>)
    ELSE IF new_status \notin {CANCELED, RECEIVED}
    THEN HTTPException(403,
            <<"Customers can only cancel orders or mark them as received">>)
    ELSE IF new_status = CANCELED /\ order.status # PLACED
    THEN HTTPException(400,
            <<"Can only cancel orders that are in PLACED status">>)
    ELSE OK

\* owner checks that leave out the ownership check
owner_checks_any_owner(restaurant, new_status, user) ==
    IF ~Found(restaurant)
    THEN HTTPException(500, <<"AttributeError">>)
    ELSE IF new_status = RECEIVED
    THEN HTTPException(403, <<"Only customers can mark orders as received">>)
    ELSE OK

\* owner checks that let the owner mark an order received
owner_checks_may_receive(restaurant, new_status, user) ==
    IF ~Found(restaurant)
    THEN HTTPException(500, <<"AttributeError">>)
    ELSE IF user.id # restaurant.owner_id
    THEN HTTPException(403, <<"Not your restaurant's order">>)
    ELSE OK

\* the permission checks of a restaurant owner; restaurant.owner_id of a
\* restaurant that is not there raises AttributeError (500)
owner_checks(restaurant, new_status, user) ==
    IF ~Found(restaurant)
    THEN HTTPException(500, <<"AttributeError">>)
    ELSE IF user.id # restaurant.owner_id
    THEN HTTPException(403, <<"Not your restaurant's order">>)
    ELSE IF new_status = RECEIVED
    THEN HTTPException(403, <<"Only customers can mark orders as received">>)
    ELSE OK

\* role checks that keep RECEIVED from everyone but customers
role_checks_admin_no_received(order, new_status, user) ==
    IF user.role = CUSTOMER
    THEN customer_checks(order, new_status, user)
    ELSE IF new_status = RECEIVED
    THEN HTTPException(403, <<"Only customers can mark orders as received">>)
    ELSE IF user.role = RESTAURANT_OWNER
    THEN owner_checks(get_restaurant_by_id(order.restaurant_id),
                      new_status, user)
    ELSE OK

\* the permission checks by role, made once the table check has passed
role_checks(order, new_status, user) ==
    IF user.role = CUSTOMER
    THEN customer_checks(order, new_status, user)
    ELSE IF user.role = RESTAURANT_OWNER
    THEN owner_checks(get_restaurant_by_id(order.restaurant_id),
                      new_status, user)
    ELSE OK

\* a guard that makes the role checks before the table check
validate_status_transition_roles_first(order, new_status, user) ==
    LET r == role_checks(order, new_status, user)
    IN  IF r # OK THEN r
        ELSE IF new_status \notin allowed_transitions(order.status)
        THEN HTTPException(400,
                <<"Cannot transition from", order.status, new_status>>)
        ELSE OK

validate_status_transition(order, new_status, user) ==
    IF new_status \notin allowed_transitions(order.status)
    THEN HTTPException(400,
            <<"Cannot transition from", order.status, new_status>>)
    ELSE role_checks(order, new_status, user)

(***************************************************************************)
(* Pricing of create_order.                                                *)
(***************************************************************************)
\* the databases the engine is created for: PostgreSQL, and SQLite, for
\* which database.py sets connect_args and the foreign_keys pragma
Engines == {"postgresql", "sqlite"}

\* a Decimal given in units of 10^-6 as stored by a numeric(10, 2) column of
\* PostgreSQL: in cents, rounded half up
NumericScale2(micro) == (micro + 5000) \div 10000

\* r doubled k times, modulo 25
RECURSIVE Doubled(_, _)
Doubled(r, k) == IF k = 0 THEN r ELSE Doubled((2 * r) % 25, k - 1)

\* the k-th binary digit of the fraction b / 25 (the digits repeat with
\* period 20)
FractionBit(b, k) == (2 * Doubled(b, (k - 1) % 20)) \div 25

\* the number of binary digits of a
RECURSIVE BitLength(_)
BitLength(a) == IF a = 0 THEN 0 ELSE 1 + BitLength(a \div 2)

\* the place of the first binary digit 1 of the fraction b / 25, from k on
RECURSIVE FirstOne(_, _)
FirstOne(b, k) == IF FractionBit(b, k) = 1 THEN k ELSE FirstOne(b, k + 1)

\* a Decimal given in units of 10^-6 as it comes back from a Numeric(10, 2)
\* column of SQLite, in cents: the value is bound as float(value), a double,
\* and read as Decimal("%.2f" % value).  Off a half cent that is the nearest
\* cent.  A value of c cents and a half is (2c + 1) / 200 = (a + b / 25) / 8:
\* with b = 0 it is a double and printf rounds half to even; otherwise the
\* double keeps 53 binary digits of it and lies above the value, and is
\* printed as c + 1, exactly if the 54th digit is 1.
FloatScale2(micro) ==
    LET c == micro \div 10000
        a == (2 * c + 1) \div 25
        b == (2 * c + 1) % 25
        kept == IF a >= 1 THEN 53 - BitLength(a) ELSE FirstOne(b, 1) + 52
    IN  IF micro % 10000 < 5000 THEN c
        ELSE IF micro % 10000 > 5000 THEN c + 1
        ELSE IF b = 0 THEN (IF c % 2 = 0 THEN c ELSE c + 1)
        ELSE c + FractionBit(b, kept + 1)

\* a Decimal given in units of 10^-6 as the engine stores and returns it
\* for a column Numeric(10, 2), in cents
Numeric(micro) ==
    IF engine = "sqlite" THEN FloatScale2(micro) ELSE NumericScale2(micro)

\* Python's truth value of Optional[str]: None and "" are false
Truthy(coupon_code) == coupon_code \notin {NULL, ""}

\* a sum over the first and the last line only, the last line weighed by
\* its place in the cart
items_total_by_place(items, n) ==
    IF n = 0 THEN 0
    ELSE get_meal_by_id(items[n].meal_id).price * items[n].quantity * n
         + (IF n > 1
            THEN get_meal_by_id(items[1].meal_id).price * items[1].quantity
            ELSE 0)

\* the sum of meal.price * item.quantity over the first n items, in cents
RECURSIVE items_total(_, _)
items_total(items, n) ==
    IF n = 0 THEN 0
    ELSE items_total(items, n - 1)
         + get_meal_by_id(items[n].meal_id).price * items[n].quantity

\* a total that takes the discount from the sum of the meals and the tip
total_amount_tip_first(order_data) ==
    LET subtotal == items_total(order_data.items, Len(order_data.items))
        percentage ==
            IF Truthy(order_data.coupon_code)
            THEN get_coupon_by_code(order_data.coupon_code)
                    .discount_percentage
            ELSE 0
        discount == subtotal * percentage
                    + ((order_data.tip_amount \div 100) * percentage)
                         \div 100
    IN  subtotal * 10000 + order_data.tip_amount - discount

\* a total that takes the percentage of the coupon as an amount of money
total_amount_amount_off(order_data) ==
    LET subtotal == items_total(order_data.items, Len(order_data.items))
        discount ==
            IF Truthy(order_data.coupon_code)
            THEN get_coupon_by_code(order_data.coupon_code).discount_percentage
            ELSE 0
    IN  (subtotal - discount) * 10000 + order_data.tip_amount

\* total_amount before it is stored, in units of 10^-6
total_amount(order_data) ==
    LET subtotal == items_total(order_data.items, Len(order_data.items))
        discount ==
            IF Truthy(order_data.coupon_code)
            THEN subtotal
                 * get_coupon_by_code(order_data.coupon_code).discount_percentage
            ELSE 0
    IN  subtotal * 10000 - discount + order_data.tip_amount

(***************************************************************************)
(* create_order.                                                           *)
(***************************************************************************)
\* a loop that checks the cart line it starts at and no other
check_items_one_line(items, restaurant_id, i) ==
    IF i > Len(items) THEN OK
    ELSE LET meal == get_meal_by_id(items[i].meal_id)
         IN  IF ~Found(meal)
             THEN HTTPException(404, <<"Meal not found", items[i].meal_id>>)
             ELSE IF meal.is_blocked
             THEN HTTPException(400, <<"Meal is blocked", meal.id>>)
             ELSE IF meal.restaurant_id # restaurant_id
             THEN HTTPException(400,
                     <<"All meals must be from the same restaurant">>)
             ELSE OK

\* the loop over the cart from item i on: the first item that fails decides
RECURSIVE check_items(_, _, _)
check_items(items, restaurant_id, i) ==
    IF i > Len(items) THEN OK
    ELSE LET meal == get_meal_by_id(items[i].meal_id)
         IN  IF ~Found(meal)
             THEN HTTPException(404, <<"Meal not found", items[i].meal_id>>)
             ELSE IF meal.is_blocked
             THEN HTTPException(400, <<"Meal is blocked", meal.id>>)
             ELSE IF meal.restaurant_id # restaurant_id
             THEN HTTPException(400,
                     <<"All meals must be from the same restaurant">>)
             ELSE check_items(items, restaurant_id, i + 1)

check_coupon(coupon_code) ==
    IF ~Truthy(coupon_code) THEN OK
    ELSE LET coupon == get_coupon_by_code(coupon_code)
         IN  IF ~Found(coupon)
             THEN HTTPException(404, <<"Coupon not found">>)
             ELSE IF ~coupon.is_active
             THEN HTTPException(400, <<"Coupon is not active">>)
             ELSE OK

\* checks that look at the coupon before the cart
create_order_checks_coupon_first(order_data, customer) ==
    IF customer.role # CUSTOMER
    THEN HTTPException(403, <<"Only customers can place orders">>)
    ELSE LET restaurant == get_restaurant_by_id(order_data.restaurant_id)
         IN  IF ~Found(restaurant)
             THEN HTTPException(404, <<"Restaurant not found">>)
             ELSE IF restaurant.is_blocked
             THEN HTTPException(400, <<"Restaurant is blocked">>)
             ELSE LET r == check_coupon(order_data.coupon_code)
                  IN  IF r # OK THEN r
                      ELSE check_items(order_data.items,
                                       order_data.restaurant_id, 1)

\* checks that leave out the role check
create_order_checks_any_role(order_data, customer) ==
    LET restaurant == get_restaurant_by_id(order_data.restaurant_id)
    IN  IF ~Found(restaurant)
        THEN HTTPException(404, <<"Restaurant not found">>)
        ELSE IF restaurant.is_blocked
        THEN HTTPException(400, <<"Restaurant is blocked">>)
        ELSE LET r == check_items(order_data.items,
                                  order_data.restaurant_id, 1)
             IN  IF r # OK THEN r
                 ELSE check_coupon(order_data.coupon_code)

\* checks that do not look at restaurant.is_blocked
create_order_checks_ignore_blocked(order_data, customer) ==
    IF customer.role # CUSTOMER
    THEN HTTPException(403, <<"Only customers can place orders">>)
    ELSE LET restaurant == get_restaurant_by_id(order_data.restaurant_id)
         IN  IF ~Found(restaurant)
             THEN HTTPException(404, <<"Restaurant not found">>)
             ELSE LET r == check_items(order_data.items,
                                       order_data.restaurant_id, 1)
                  IN  IF r # OK THEN r
                      ELSE check_coupon(order_data.coupon_code)

\* the checks of create_order in the order the code makes them
create_order_checks(order_data, customer) ==
    IF customer.role # CUSTOMER
    THEN HTTPException(403, <<"Only customers can place orders">>)
    ELSE LET restaurant == get_restaurant_by_id(order_data.restaurant_id)
         IN  IF ~Found(restaurant)
             THEN HTTPException(404, <<"Restaurant not found">>)
             ELSE IF restaurant.is_blocked
             THEN HTTPException(400, <<"Restaurant is blocked">>)
             ELSE LET r == check_items(order_data.items,
                                       order_data.restaurant_id, 1)
                  IN  IF r # OK THEN r
                      ELSE check_coupon(order_data.coupon_code)

\* an item that stores the amount of its line in place of the unit price
OrderItem_line_amount(item) ==
    [meal_id |-> item.meal_id, quantity |-> item.quantity,
     price_at_order |-> get_meal_by_id(item.meal_id).price * item.quantity]

\* OrderItem(order_id, meal_id, quantity, price_at_order=meal.price)
OrderItem(item) ==
    [meal_id |-> item.meal_id, quantity |-> item.quantity,
     price_at_order |-> get_meal_by_id(item.meal_id).price]

\* a history row that does not name who made the change
OrderStatusHistory_anonymous(status, changed_by_user_id) ==
    [status |-> status, changed_by_user_id |-> NULL]

OrderStatusHistory(status, changed_by_user_id) ==
    [status |-> status, changed_by_user_id |-> changed_by_user_id]

\* the order with its items and its first history row, as committed
Order(id, order_data, customer) ==
    [id |-> id,
     customer_id |-> customer.id,
     restaurant_id |-> order_data.restaurant_id,
     status |-> PLACED,
     total_amount |-> Numeric(total_amount(order_data)),
     tip_amount |-> Numeric(order_data.tip_amount),
     coupon_id |-> IF Truthy(order_data.coupon_code)
                   THEN get_coupon_by_code(order_data.coupon_code).id
                   ELSE NULL,
     items |-> [i \in 1..Len(order_data.items) |->
                   OrderItem(order_data.items[i])],
     status_history |-> <<OrderStatusHistory(PLACED, customer.id)>>]

\* the service method on the store as it is: the response, and the orders
\* after the commit; the new order takes the next order id
create_order(order_data, customer) ==
    LET r == create_order_checks(order_data, customer)
    IN  [response |-> r,
         orders |-> IF r = OK
                    THEN [o \in DOMAIN orders \cup {next_order_id} |->
                             IF o = next_order_id
                             THEN Order(next_order_id, order_data, customer)
                             ELSE orders[o]]
                    ELSE orders]

\* the route, handled with no other request in between
CreateOrder(u, order_data) ==
    LET auth == get_current_user(u)
        out == IF auth # OK THEN [response |-> auth, orders |-> orders]
               ELSE create_order(order_data, users[u])
    IN  IF out.response # OK
        THEN /\ response' = out.response
             /\ UNCHANGED <<engine, users, restaurants, meals, coupons, orders,
                            next_order_id, session>>
        ELSE /\ next_order_id <= MaxOrders
             /\ orders' = out.orders
             /\ next_order_id' = next_order_id + 1
             /\ response' = HTTPException(201, <<"Created">>)
             /\ UNCHANGED <<engine, users, restaurants, meals, coupons, session>>

(***************************************************************************)
(* update_order_status.                                                    *)
(***************************************************************************)
\* a write that keeps one history row per order: the last row is replaced
with_status_overwrite(order, new_status, user) ==
    [order EXCEPT
        !.status = new_status,
        !.status_history =
            Append(SubSeq(@, 1, Len(@) - 1),
                   [status |-> new_status, changed_by_user_id |-> user.id])]

\* a write that names the customer of the order in the new history row
with_status_by_customer(order, new_status, user) ==
    [order EXCEPT
        !.status = new_status,
        !.status_history =
            Append(@, [status |-> new_status,
                       changed_by_user_id |-> order.customer_id])]

\* db_order.status = status_data.status and the new history row
with_status(order, new_status, user) ==
    [order EXCEPT
        !.status = new_status,
        !.status_history =
            Append(@, OrderStatusHistory(new_status, user.id))]

\* what update_order_status raises before it writes, or OK
update_order_status_checks(order_id, new_status, user) ==
    LET db_order == get_order_by_id(order_id)
    IN  IF ~Found(db_order)
        THEN HTTPException(404, <<"Order not found">>)
        ELSE validate_status_transition(db_order, new_status, user)

\* an update that writes the status and the history row and validates
\* afterwards
update_order_status_write_first(order_id, new_status, current_user) ==
    [response |-> update_order_status_checks(order_id, new_status,
                                              current_user),
     orders |-> IF order_id \in DOMAIN orders
                THEN [orders EXCEPT ![order_id] =
                         with_status(@, new_status, current_user)]
                ELSE orders]

\* the service method on the store as it is: the response, and the orders
\* after the commit
update_order_status(order_id, new_status, current_user) ==
    LET r == update_order_status_checks(order_id, new_status, current_user)
    IN  [response |-> r,
         orders |-> IF r = OK
                    THEN [orders EXCEPT ![order_id] =
                             with_status(@, new_status, current_user)]
                    ELSE orders]

\* the route, handled with no other request in between
UpdateOrderStatus(u, order_id, new_status) ==
    LET auth == get_current_user(u)
        out == IF auth # OK THEN [response |-> auth, orders |-> orders]
               ELSE update_order_status(order_id, new_status, users[u])
    IN  /\ response' = out.response
        /\ orders' = out.orders
        /\ UNCHANGED <<engine, users, restaurants, meals, coupons, next_order_id,
                       session>>

(***************************************************************************)
(* delete_order.                                                           *)
(***************************************************************************)
\* checks that look for the order before they look at the role
delete_order_checks_order_first(order_id, current_user) ==
    IF ~Found(get_order_by_id(order_id))
    THEN HTTPException(404, <<"Order not found">>)
    ELSE IF current_user.role # ADMIN
    THEN HTTPException(403, <<"Only admins can delete orders">>)
    ELSE OK

\* what delete_order raises before it deletes, or OK
delete_order_checks(order_id, current_user) ==
    IF current_user.role # ADMIN
    THEN HTTPException(403, <<"Only admins can delete orders">>)
    ELSE IF ~Found(get_order_by_id(order_id))
    THEN HTTPException(404, <<"Order not found">>)
    ELSE OK

\* the service method on the store as it is; db.delete(db_order): the
\* order goes with its items and history rows
delete_order(order_id, current_user) ==
    LET r == delete_order_checks(order_id, current_user)
    IN  [response |-> r,
         orders |-> IF r = OK
                    THEN [o \in DOMAIN orders \ {order_id} |-> orders[o]]
                    ELSE orders]

\* the route, handled with no other request in between
DeleteOrder(u, order_id) ==
    LET auth == get_current_user(u)
        out == IF auth # OK THEN [response |-> auth, orders |-> orders]
               ELSE delete_order(order_id, users[u])
    IN  /\ response' = IF out.response = OK
                       THEN HTTPException(204, <<"No Content">>)
                       ELSE out.response
        /\ orders' = out.orders
        /\ UNCHANGED <<engine, users, restaurants, meals, coupons, next_order_id,
                       session>>

(***************************************************************************)
(* update_order_status handled by concurrent workers, each with a database *)
(* session of its own: the order is read and validated (lines 156-164),    *)
(* and the status and the history row are written at the commit            *)
(* (lines 167-177).  The UPDATE names the row by its primary key only.     *)
(***************************************************************************)
Idle == [pc |-> "idle", user |-> NULL, order_id |-> 0, status |-> NULL]

\* get_order_by_id and _validate_status_transition in session s
UpdateBegin(s, u, order_id, new_status) ==
    LET auth == get_current_user(u)
        r == IF auth # OK THEN auth
             ELSE update_order_status_checks(order_id, new_status, users[u])
    IN  /\ session[s].pc = "idle"
        /\ IF r = OK
           THEN /\ session' = [session EXCEPT ![s] =
                      [pc |-> "validated", user |-> u, order_id |-> order_id,
                       status |-> new_status]]
                /\ UNCHANGED response
           ELSE /\ response' = r
                /\ UNCHANGED session
        /\ UNCHANGED <<engine, users, restaurants, meals, coupons, orders,
                       next_order_id>>

\* the flush and commit of session s: UPDATE orders SET status WHERE id,
\* INSERT the history row; an UPDATE that matches no row raises
\* StaleDataError and the session is rolled back
UpdateCommit(s) ==
    LET req == session[s]
    IN  /\ req.pc = "validated"
        /\ session' = [session EXCEPT ![s] = Idle]
        /\ IF req.order_id \in DOMAIN orders
           THEN /\ orders' = [orders EXCEPT ![req.order_id] =
                      with_status(@, req.status, users[req.user])]
                /\ response' = OK
           ELSE /\ response' = HTTPException(500, <<"StaleDataError">>)
                /\ UNCHANGED orders
        /\ UNCHANGED <<engine, users, restaurants, meals, coupons, next_order_id>>

(***************************************************************************)
(* create_order and update_order_status as database transactions of        *)
(* concurrent workers.  A session's writes stay in its transaction until   *)
(* the commit: orders holds the committed rows, the rows every other       *)
(* session reads; session[s] holds what s has flushed and not committed.   *)
(***************************************************************************)
\* the checks of create_order and self.db.flush() of the order row in
\* session s (lines 44-130): the order id is handed out, the order is
\* priced from the meals as read, nothing is committed
CreateFlush(s, u, order_data) ==
    LET auth == get_current_user(u)
        r == IF auth # OK THEN auth
             ELSE create_order_checks(order_data, users[u])
    IN  /\ session[s].pc = "idle"
        /\ IF r # OK
           THEN /\ response' = r
                /\ UNCHANGED <<session, next_order_id>>
           ELSE /\ next_order_id <= MaxOrders
                /\ session' = [session EXCEPT ![s] =
                      [pc |-> "flushed", user |-> u,
                       order_id |-> next_order_id, status |-> PLACED,
                       order |-> Order(next_order_id, order_data, users[u]),
                       order_data |-> order_data]]
                /\ next_order_id' = next_order_id + 1
                /\ UNCHANGED response
        /\ UNCHANGED <<engine, users, restaurants, meals, coupons, orders>>

\* the items and the history row are added and self.db.commit() succeeds
\* (lines 133-150): the order, its items and its first history row become
\* visible together
CreateCommit(s) ==
    LET req == session[s]
    IN  /\ req.pc = "flushed"
        /\ session' = [session EXCEPT ![s] = Idle]
        /\ orders' = [o \in DOMAIN orders \cup {req.order_id} |->
                         IF o = req.order_id THEN req.order ELSE orders[o]]
        /\ response' = HTTPException(201, <<"Created">>)
        /\ UNCHANGED <<engine, users, restaurants, meals, coupons, next_order_id>>

\* a rollback that leaves the INSERT of the order row behind
Rollback_keeps_insert(s) ==
    LET req == session[s]
    IN  /\ req.pc \in {"flushed", "validated"}
        /\ session' = [session EXCEPT ![s] = Idle]
        /\ response' = HTTPException(500, <<"commit failed", req.pc>>)
        /\ orders' = IF req.pc = "flushed"
                     THEN [o \in DOMAIN orders \cup {req.order_id} |->
                              IF o = req.order_id
                              THEN [req.order EXCEPT !.items = <<>>,
                                                     !.status_history = <<>>]
                              ELSE orders[o]]
                     ELSE orders
        /\ UNCHANGED <<engine, users, restaurants, meals, coupons, next_order_id>>

\* a rollback that leaves the UPDATE of the status behind
Rollback_keeps_update(s) ==
    LET req == session[s]
    IN  /\ req.pc \in {"flushed", "validated"}
        /\ session' = [session EXCEPT ![s] = Idle]
        /\ response' = HTTPException(500, <<"commit failed", req.pc>>)
        /\ orders' = IF req.pc = "validated" /\ req.order_id \in DOMAIN orders
                     THEN [orders EXCEPT ![req.order_id].status = req.status]
                     ELSE orders
        /\ UNCHANGED <<engine, users, restaurants, meals, coupons, next_order_id>>

\* a statement of the flush or the COMMIT of session s fails: the exception
\* leaves the handler, get_db closes the session, and the transaction is
\* rolled back with everything it wrote
Rollback(s) ==
    LET req == session[s]
    IN  /\ req.pc \in {"flushed", "validated"}
        /\ session' = [session EXCEPT ![s] = Idle]
        /\ response' = HTTPException(500, <<"commit failed", req.pc>>)
        /\ UNCHANGED <<engine, users, restaurants, meals, coupons, orders,
                       next_order_id>>

(***************************************************************************)
(* Catalog and coupon updates.  An update is a record of the fields that   *)
(* were set (model_dump(exclude_unset=True)).                              *)
(***************************************************************************)
\* setattr for each field that was set
set_fields(row, update_data) ==
    [f \in DOMAIN row |->
        IF f \in DOMAIN update_data THEN update_data[f] ELSE row[f]]

update_restaurant(restaurant_id, restaurant_data, current_user) ==
    LET db_restaurant == get_restaurant_by_id(restaurant_id)
        r == IF ~Found(db_restaurant)
             THEN HTTPException(404, <<"Restaurant not found">>)
             ELSE IF current_user.role # ADMIN
                     /\ db_restaurant.owner_id # current_user.id
             THEN HTTPException(403, <<"Not enough permissions">>)
             ELSE OK
    IN  [response |-> r,
         restaurants |-> IF r = OK
                         THEN [restaurants EXCEPT ![restaurant_id] =
                                  set_fields(@, restaurant_data)]
                         ELSE restaurants]

UpdateRestaurant(u, restaurant_id, restaurant_data) ==
    LET auth == get_current_user(u)
        out == IF auth # OK
               THEN [response |-> auth, restaurants |-> restaurants]
               ELSE update_restaurant(restaurant_id, restaurant_data,
                                      users[u])
    IN  /\ response' = out.response
        /\ restaurants' = out.restaurants
        /\ UNCHANGED <<engine, users, meals, coupons, orders, next_order_id, session>>

update_meal(meal_id, meal_data, current_user) ==
    LET db_meal == get_meal_by_id(meal_id)
        r == IF ~Found(db_meal)
             THEN HTTPException(404, <<"Meal not found">>)
             ELSE IF current_user.role # ADMIN
                     /\ get_restaurant_by_id(db_meal.restaurant_id).owner_id
                           # current_user.id
             THEN HTTPException(403, <<"Not enough permissions">>)
             ELSE OK
    IN  [response |-> r,
         meals |-> IF r = OK
                   THEN [meals EXCEPT ![meal_id] = set_fields(@, meal_data)]
                   ELSE meals]

UpdateMeal(u, meal_id, meal_data) ==
    LET auth == get_current_user(u)
        out == IF auth # OK THEN [response |-> auth, meals |-> meals]
               ELSE update_meal(meal_id, meal_data, users[u])
    IN  /\ response' = out.response
        /\ meals' = out.meals
        /\ UNCHANGED <<engine, users, restaurants, coupons, orders, next_order_id,
                       session>>

update_coupon(coupon_id, coupon_data) ==
    LET r == IF coupon_id \notin DOMAIN coupons
             THEN HTTPException(404, <<"Coupon not found">>)
             ELSE IF /\ "code" \in DOMAIN coupon_data
                     /\ Truthy(coupon_data.code)
                     /\ coupon_data.code # coupons[coupon_id].code
                     /\ Found(get_coupon_by_code(coupon_data.code))
             THEN HTTPException(400, <<"Coupon code already exists">>)
             ELSE OK
    IN  [response |-> r,
         coupons |-> IF r = OK
                     THEN [coupons EXCEPT ![coupon_id] =
                              set_fields(@, coupon_data)]
                     ELSE coupons]

\* get_current_admin: the current user, who must be an administrator
get_current_admin(user_id) ==
    LET auth == get_current_user(user_id)
    IN  IF auth # OK THEN auth
        ELSE IF users[user_id].role # ADMIN
        THEN HTTPException(403, <<"Not enough permissions">>)
        ELSE OK

UpdateCoupon(u, coupon_id, coupon_data) ==
    LET auth == get_current_admin(u)
        out == IF auth # OK THEN [response |-> auth, coupons |-> coupons]
               ELSE update_coupon(coupon_id, coupon_data)
    IN  /\ response' = out.response
        /\ coupons' = out.coupons
        /\ UNCHANGED <<engine, users, restaurants, meals, orders, next_order_id,
                       session>>

(***************************************************************************)
(* Deleting a coupon or a restaurant.  db.delete(row) follows the          *)
(* relationships of the row: a relationship with cascade "all,             *)
(* delete-orphan" deletes the rows it holds, a relationship with no cascade *)
(* sets the foreign key of the rows it holds to NULL.                      *)
(***************************************************************************)
\* Coupon.orders has no cascade and orders.coupon_id is nullable: the
\* orders of the deleted coupon stay, with coupon_id NULL
coupon_orders(coupon_id) ==
    [o \in DOMAIN orders |->
        IF orders[o].coupon_id = coupon_id
        THEN [orders[o] EXCEPT !.coupon_id = NULL]
        ELSE orders[o]]

delete_coupon(coupon_id) ==
    LET r == IF coupon_id \notin DOMAIN coupons
             THEN HTTPException(404, <<"Coupon not found">>)
             ELSE OK
    IN  [response |-> r,
         coupons |-> IF r = OK
                     THEN [k \in DOMAIN coupons \ {coupon_id} |-> coupons[k]]
                     ELSE coupons,
         orders |-> IF r = OK THEN coupon_orders(coupon_id) ELSE orders]

DeleteCoupon(u, coupon_id) ==
    LET auth == get_current_admin(u)
        out == IF auth # OK
               THEN [response |-> auth, coupons |-> coupons, orders |-> orders]
               ELSE delete_coupon(coupon_id)
    IN  /\ response' = IF out.response = OK
                       THEN HTTPException(204, <<"No Content">>)
                       ELSE out.response
        /\ coupons' = out.coupons
        /\ orders' = out.orders
        /\ UNCHANGED <<engine, users, restaurants, meals, next_order_id,
                       session>>

\* Restaurant.orders has cascade "all, delete-orphan": the orders of the
\* deleted restaurant go, each with its items and history rows
restaurant_orders(restaurant_id) ==
    [o \in {x \in DOMAIN orders : orders[x].restaurant_id # restaurant_id}
        |-> orders[o]]

\* Restaurant.meals has cascade "all, delete-orphan"
restaurant_meals(restaurant_id) ==
    [m \in {x \in DOMAIN meals : meals[x].restaurant_id # restaurant_id}
        |-> meals[m]]

delete_restaurant(restaurant_id, current_user) ==
    LET db_restaurant == get_restaurant_by_id(restaurant_id)
        r == IF ~Found(db_restaurant)
             THEN HTTPException(404, <<"Restaurant not found">>)
             ELSE IF current_user.role # ADMIN
                     /\ db_restaurant.owner_id # current_user.id
             THEN HTTPException(403, <<"Not enough permissions">>)
             ELSE OK
    IN  [response |-> r,
         restaurants |-> IF r = OK
                         THEN [x \in DOMAIN restaurants \ {restaurant_id}
                                  |-> restaurants[x]]
                         ELSE restaurants,
         meals |-> IF r = OK THEN restaurant_meals(restaurant_id) ELSE meals,
         orders |-> IF r = OK THEN restaurant_orders(restaurant_id)
                    ELSE orders]

DeleteRestaurant(u, restaurant_id) ==
    LET auth == get_current_user(u)
        out == IF auth # OK
               THEN [response |-> auth, restaurants |-> restaurants,
                     meals |-> meals, orders |-> orders]
               ELSE delete_restaurant(restaurant_id, users[u])
    IN  /\ response' = IF out.response = OK
                       THEN HTTPException(204, <<"No Content">>)
                       ELSE out.response
        /\ restaurants' = out.restaurants
        /\ meals' = out.meals
        /\ orders' = out.orders
        /\ UNCHANGED <<engine, users, coupons, next_order_id, session>>

(***************************************************************************)
(* The listing of the caller's orders.                                     *)
(***************************************************************************)
\* a query with no filter
get_orders_by_customer_unfiltered(customer_id) ==
    {orders[o] : o \in DOMAIN orders}

\* query(Order).filter(Order.customer_id == customer_id).all(), as the set
\* of the rows
get_orders_by_customer(customer_id) ==
    {orders[o] : o \in {x \in DOMAIN orders :
                           orders[x].customer_id = customer_id}}

\* the route: the response, and the orders of its body
list_my_orders(current_user) ==
    IF current_user.role # CUSTOMER
    THEN [response |->
             HTTPException(403, <<"Only customers can access this endpoint">>),
          body |-> {}]
    ELSE [response |-> OK, body |-> get_orders_by_customer(current_user.id)]

\* the route, handled with no other request in between; the response
\* carries the ids of the orders listed
ListMyOrders(u) ==
    LET auth == get_current_user(u)
        out == IF auth # OK THEN [response |-> auth, body |-> {}]
               ELSE list_my_orders(users[u])
    IN  /\ response' = IF out.response = OK
                       THEN [status_code |-> 200, detail |-> <<"OK">>,
                             body |-> {order.id : order \in out.body}]
                       ELSE out.response
        /\ UNCHANGED <<engine, users, restaurants, meals, coupons, orders,
                       next_order_id, session>>

(***************************************************************************)
(* The reads of orders (routers/orders.py).  Each route is a function of   *)
(* the store: the response, and the rows of its body.                      *)
(***************************************************************************)
\* the default of the limit parameter of the paginated queries
DefaultLimit == 100

\* query(Order).filter(Order.restaurant_id == restaurant_id).all()
get_orders_by_restaurant(restaurant_id) ==
    {orders[o] : o \in {x \in DOMAIN orders :
                           orders[x].restaurant_id = restaurant_id}}

\* query(Restaurant).filter(Restaurant.owner_id == owner_id).all()
get_restaurants_by_owner(owner_id) ==
    {restaurants[r] : r \in {x \in DOMAIN restaurants :
                                restaurants[x].owner_id = owner_id}}

\* query(Order).offset(skip).limit(limit).all(), the rows taken in the
\* order of their ids
get_orders(skip, limit) ==
    {orders[o] : o \in {x \in DOMAIN orders :
          LET place == Cardinality({y \in DOMAIN orders : y <= x})
          IN  place > skip /\ place <= skip + limit}}

\* a check that lets every customer read every order
get_order_any_customer(order_id, current_user) ==
    LET order == get_order_by_id(order_id)
    IN  IF ~Found(order)
        THEN [response |-> HTTPException(404, <<"Order not found">>),
              body |-> {}]
        ELSE IF /\ current_user.role = RESTAURANT_OWNER
                /\ get_restaurant_by_id(order.restaurant_id).owner_id
                      # current_user.id
        THEN [response |->
                 HTTPException(403, <<"Not your restaurant's order">>),
              body |-> {}]
        ELSE [response |-> OK, body |-> {order}]

\* GET /orders/{order_id}
get_order(order_id, current_user) ==
    LET order == get_order_by_id(order_id)
    IN  IF ~Found(order)
        THEN [response |-> HTTPException(404, <<"Order not found">>),
              body |-> {}]
        ELSE IF /\ current_user.role = CUSTOMER
                /\ order.customer_id # current_user.id
        THEN [response |-> HTTPException(403, <<"Not your order">>),
              body |-> {}]
        ELSE IF /\ current_user.role = RESTAURANT_OWNER
                /\ get_restaurant_by_id(order.restaurant_id).owner_id
                      # current_user.id
        THEN [response |->
                 HTTPException(403, <<"Not your restaurant's order">>),
              body |-> {}]
        ELSE [response |-> OK, body |-> {order}]

\* GET /orders/
list_orders(skip, limit, current_user) ==
    [response |-> OK,
     body |->
        CASE current_user.role = ADMIN -> get_orders(skip, limit)
          [] current_user.role = CUSTOMER ->
                get_orders_by_customer(current_user.id)
          [] current_user.role = RESTAURANT_OWNER ->
                UNION {get_orders_by_restaurant(restaurant.id) :
                          restaurant \in
                             get_restaurants_by_owner(current_user.id)}
          [] OTHER -> {}]

\* GET /orders/restaurant/{restaurant_id}
list_restaurant_orders(restaurant_id, current_user) ==
    LET restaurant == get_restaurant_by_id(restaurant_id)
    IN  IF ~Found(restaurant)
        THEN [response |-> HTTPException(404, <<"Restaurant not found">>),
              body |-> {}]
        ELSE IF /\ current_user.role # ADMIN
                /\ restaurant.owner_id # current_user.id
        THEN [response |-> HTTPException(403, <<"Not enough permissions">>),
              body |-> {}]
        ELSE [response |-> OK,
              body |-> get_orders_by_restaurant(restaurant_id)]

\* the response sent for the result of a read: the rows of the body of a
\* successful read, the exception of a refused one
Rendered(out) ==
    IF out.response = OK
    THEN [status_code |-> 200, detail |-> <<"OK">>, body |-> out.body]
    ELSE out.response

\* the result of a read route behind get_current_user
Authenticated(u, out) ==
    IF get_current_user(u) # OK
    THEN [response |-> get_current_user(u), body |-> {}]
    ELSE out

\* a read that also records itself in the history of the order
GetOrder_logs_the_read(u, order_id) ==
    LET out == Authenticated(u, get_order(order_id, users[u]))
    IN  /\ response' = Rendered(out)
        /\ orders' = IF out.response = OK
                     THEN [orders EXCEPT ![order_id].status_history =
                              Append(@, @[Len(@)])]
                     ELSE orders
        /\ UNCHANGED <<engine, users, restaurants, meals, coupons,
                       next_order_id, session>>

\* the routes, handled with no other request in between
GetOrder(u, order_id) ==
    LET out == Authenticated(u, get_order(order_id, users[u]))
    IN  /\ response' = Rendered(out)
        /\ UNCHANGED <<engine, users, restaurants, meals, coupons, orders,
                       next_order_id, session>>

ListOrders(u, skip, limit) ==
    LET out == Authenticated(u, list_orders(skip, limit, users[u]))
    IN  /\ response' = Rendered(out)
        /\ UNCHANGED <<engine, users, restaurants, meals, coupons, orders,
                       next_order_id, session>>

ListRestaurantOrders(u, restaurant_id) ==
    LET out == Authenticated(u,
                   list_restaurant_orders(restaurant_id, users[u]))
    IN  /\ response' = Rendered(out)
        /\ UNCHANGED <<engine, users, restaurants, meals, coupons, orders,
                       next_order_id, session>>

(***************************************************************************)
(* Creating a restaurant.  The id of the new row is a fresh uuid4: the     *)
(* model takes the first id after r1 and r2 that no row holds.  The        *)
(* name and the description of the request are not looked at by any check  *)
(* and are not kept in the rows of the model.                              *)
(***************************************************************************)
NewRestaurantIds == {"r" \o ToString(2 + n) : n \in 1..MaxNewRestaurants}

FreshRestaurantId ==
    "r" \o ToString(2 + CHOOSE n \in 1..(MaxNewRestaurants + 1) :
           /\ "r" \o ToString(2 + n) \notin DOMAIN restaurants
           /\ \A k \in 1..(n - 1) :
                 "r" \o ToString(2 + k) \in DOMAIN restaurants)

\* a service that lets every role create a restaurant
create_restaurant_any_role(restaurant_data, owner) ==
    [response |-> OK,
     restaurants |->
        [x \in DOMAIN restaurants \cup {FreshRestaurantId} |->
            IF x \in DOMAIN restaurants THEN restaurants[x]
            ELSE Restaurant(x, owner.id)]]

create_restaurant(restaurant_data, owner) ==
    IF owner.role \notin {RESTAURANT_OWNER, ADMIN}
    THEN [response |->
             HTTPException(403,
                <<"Only restaurant owners can create restaurants">>),
          restaurants |-> restaurants]
    ELSE [response |-> OK,
          restaurants |->
             [x \in DOMAIN restaurants \cup {FreshRestaurantId} |->
                 IF x \in DOMAIN restaurants THEN restaurants[x]
                 ELSE Restaurant(x, owner.id)]]

\* the route, handled with no other request in between; the model creates
\* no more than MaxNewRestaurants restaurants at a time
CreateRestaurant(u, restaurant_data) ==
    LET auth == get_current_user(u)
        out == IF auth # OK
               THEN [response |-> auth, restaurants |-> restaurants]
               ELSE create_restaurant(restaurant_data, users[u])
    IN  /\ DOMAIN out.restaurants \subseteq
              RestaurantIds \cup NewRestaurantIds
        /\ response' = IF out.response = OK
                       THEN HTTPException(201, <<"Created">>)
                       ELSE out.response
        /\ restaurants' = out.restaurants
        /\ UNCHANGED <<engine, users, meals, coupons, orders,
                       next_order_id, session>>

(***************************************************************************)
(* Users (services/user_service.py, routers/auth.py, routers/users.py).    *)
(* The id of a new user is a fresh uuid4: the model takes the first of the *)
(* ids n1, n2, ... that no row holds.  The full name of a user is looked   *)
(* at by no check and is not kept in the rows of the model.                *)
(***************************************************************************)
NewUserIds == {"n" \o ToString(n) : n \in 1..MaxNewUsers}

FreshUserId ==
    "n" \o ToString(CHOOSE n \in 1..(MaxNewUsers + 1) :
           /\ "n" \o ToString(n) \notin DOMAIN users
           /\ \A k \in 1..(n - 1) : "n" \o ToString(k) \in DOMAIN users)

get_user_by_email(email) ==
    IF \E x \in DOMAIN users : users[x].email = email
    THEN users[CHOOSE x \in DOMAIN users : users[x].email = email]
    ELSE NoRow

get_user_by_id(user_id) ==
    IF user_id \in DOMAIN users THEN users[user_id] ELSE NoRow

\* the row that create_user adds: is_active and is_blocked take the
\* defaults of their columns
NewUser(id, user_data) ==
    [id |-> id, email |-> user_data.email,
     hashed_password |-> get_password_hash(user_data.password),
     role |-> user_data.role, is_active |-> TRUE, is_blocked |-> FALSE]

\* a users table whose email column has no unique index
insert_user_no_unique_index(db_user) ==
    [response |-> OK,
     users |-> [x \in DOMAIN users \cup {db_user.id} |->
                   IF x = db_user.id THEN db_user ELSE users[x]]]

\* db.add(db_user) and db.commit(): the INSERT violates the unique index of
\* users.email when a row holds the email, the IntegrityError is not
\* caught and the session is closed without a commit
insert_user(db_user) ==
    IF \E x \in DOMAIN users : users[x].email = db_user.email
    THEN [response |-> HTTPException(500, <<"IntegrityError">>),
          users |-> users]
    ELSE [response |-> OK,
          users |-> [x \in DOMAIN users \cup {db_user.id} |->
                        IF x = db_user.id THEN db_user ELSE users[x]]]

\* the service method on the store as it is: the response, and the users
\* after the commit
create_user(user_data) ==
    IF Found(get_user_by_email(user_data.email))
    THEN [response |-> HTTPException(400, <<"Email already registered">>),
          users |-> users]
    ELSE insert_user(NewUser(FreshUserId, user_data))

\* the fields that update_user sets: the password is stored as its hash
user_update_data(user_data) ==
    [f \in (DOMAIN user_data \ {"password"}) \cup
           (IF "password" \in DOMAIN user_data
            THEN {"hashed_password"} ELSE {}) |->
        IF f = "hashed_password" THEN get_password_hash(user_data.password)
        ELSE user_data[f]]

update_user(user_id, user_data) ==
    LET db_user == get_user_by_id(user_id)
        r == IF ~Found(db_user)
             THEN HTTPException(404, <<"User not found">>)
             ELSE IF /\ "email" \in DOMAIN user_data
                     /\ user_data.email # db_user.email
                     /\ Found(get_user_by_email(user_data.email))
             THEN HTTPException(400, <<"Email already registered">>)
             ELSE OK
    IN  [response |-> r,
         users |-> IF r = OK
                   THEN [users EXCEPT ![user_id] =
                            set_fields(@, user_update_data(user_data))]
                   ELSE users]

\* the user of the credentials, or no row
authenticate_user(email, password) ==
    LET user == get_user_by_email(email)
    IN  IF ~Found(user) THEN NoRow
        ELSE IF ~verify_password(password, user.hashed_password) THEN NoRow
        ELSE IF ~user.is_active \/ user.is_blocked THEN NoRow
        ELSE user

\* POST /auth/login: the token names the user by the email
login(credentials) ==
    LET user == authenticate_user(credentials.email, credentials.password)
    IN  IF ~Found(user)
        THEN HTTPException(401, <<"Incorrect email or password">>)
        ELSE [status_code |-> 200, detail |-> <<"OK">>,
              access_token |-> user.email]

\* the routes, handled with no other request in between; the model keeps
\* no more than MaxNewUsers new users at a time
Register(user_data) ==
    LET out == create_user(user_data)
    IN  /\ DOMAIN out.users \subseteq DOMAIN users \cup NewUserIds
        /\ response' = IF out.response = OK
                       THEN HTTPException(201, <<"Created">>)
                       ELSE out.response
        /\ users' = out.users
        /\ UNCHANGED <<engine, restaurants, meals, coupons, orders,
                       next_order_id, session>>

CreateUser(u, user_data) ==
    LET auth == get_current_admin(u)
        out == IF auth # OK THEN [response |-> auth, users |-> users]
               ELSE create_user(user_data)
    IN  /\ DOMAIN out.users \subseteq DOMAIN users \cup NewUserIds
        /\ response' = IF out.response = OK
                       THEN HTTPException(201, <<"Created">>)
                       ELSE out.response
        /\ users' = out.users
        /\ UNCHANGED <<engine, restaurants, meals, coupons, orders,
                       next_order_id, session>>

UpdateUser(u, user_id, user_data) ==
    LET auth == get_current_admin(u)
        out == IF auth # OK THEN [response |-> auth, users |-> users]
               ELSE update_user(user_id, user_data)
    IN  /\ response' = out.response
        /\ users' = out.users
        /\ UNCHANGED <<engine, restaurants, meals, coupons, orders,
                       next_order_id, session>>

Login(credentials) ==
    /\ response' = login(credentials)
    /\ UNCHANGED <<engine, users, restaurants, meals, coupons, orders,
                   next_order_id, session>>

(***************************************************************************)
(* POST /auth/register handled by concurrent workers, each with a database *)
(* session of its own: create_user looks for the email (lines 51-57), and  *)
(* the row is inserted at the commit (lines 67-68).                        *)
(***************************************************************************)
\* get_user_by_email in session s
RegisterBegin(s, user_data) ==
    /\ session[s].pc = "idle"
    /\ IF Found(get_user_by_email(user_data.email))
       THEN /\ response' =
                  HTTPException(400, <<"Email already registered">>)
            /\ UNCHANGED session
       ELSE /\ session' = [session EXCEPT ![s] =
                  [pc |-> "registering", user_data |-> user_data]]
            /\ UNCHANGED response
    /\ UNCHANGED <<engine, users, restaurants, meals, coupons, orders,
                   next_order_id>>

\* the flush and commit of session s
RegisterCommit(s) ==
    LET req == session[s]
        out == insert_user(NewUser(FreshUserId, req.user_data))
    IN  /\ req.pc = "registering"
        /\ DOMAIN out.users \subseteq DOMAIN users \cup NewUserIds
        /\ session' = [session EXCEPT ![s] = Idle]
        /\ response' = IF out.response = OK
                       THEN HTTPException(201, <<"Created">>)
                       ELSE out.response
        /\ users' = out.users
        /\ UNCHANGED <<engine, restaurants, meals, coupons, orders,
                       next_order_id>>

(***************************************************************************)
(* Deleting a user.  db.delete(db_user) follows User.restaurants and       *)
(* User.orders, both cascade "all, delete-orphan"; nothing follows         *)
(* order_status_history.changed_by_user_id, a foreign key to users.id, so  *)
(* the DELETE of a user whom a remaining history row names violates the    *)
(* key and the commit raises IntegrityError.                               *)
(***************************************************************************)
RECURSIVE Subsets(_, _)
\* the subsets of S that have k members
Subsets(S, k) ==
    IF k = 0 THEN {{}}
    ELSE UNION {{T \cup {e} : T \in Subsets(S \ {e}, k - 1)} : e \in S}

\* query(User).offset(skip).limit(limit).all(): the query has no ORDER BY,
\* so the database may return any limit of the rows that are left after
\* skip rows; the set of the results the query may give
get_users(skip, limit) ==
    LET n == Cardinality(DOMAIN users)
        rest == IF n > skip THEN n - skip ELSE 0
        size == IF rest > limit THEN limit ELSE rest
    IN  {{users[x] : x \in DOMAIN users \ left_out} :
            left_out \in Subsets(DOMAIN users, n - size)}

\* sum(1 for u in all_users if u.role.value == "admin")
admin_count(all_users) ==
    Cardinality({user \in all_users : user.role = ADMIN})

\* the restaurants of the owners other than user_id
user_restaurants(user_id) ==
    [r \in {x \in DOMAIN restaurants : restaurants[x].owner_id # user_id}
        |-> restaurants[r]]

\* the service method on the store as it is: the response, and the tables
\* after the commit
delete_user(user_id) ==
    LET kept_restaurants == user_restaurants(user_id)
        kept_meals ==
            [m \in {x \in DOMAIN meals :
                       meals[x].restaurant_id \in DOMAIN kept_restaurants}
                |-> meals[m]]
        kept_orders ==
            [o \in {x \in DOMAIN orders :
                       /\ orders[x].customer_id # user_id
                       /\ orders[x].restaurant_id \in DOMAIN kept_restaurants}
                |-> orders[o]]
        r == IF ~Found(get_user_by_id(user_id))
             THEN HTTPException(404, <<"User not found">>)
             ELSE IF \E o \in DOMAIN kept_orders :
                        \E i \in DOMAIN kept_orders[o].status_history :
                           kept_orders[o].status_history[i].changed_by_user_id
                              = user_id
             THEN HTTPException(500, <<"IntegrityError">>)
             ELSE OK
    IN  IF r # OK
        THEN [response |-> r, users |-> users, restaurants |-> restaurants,
              meals |-> meals, orders |-> orders]
        ELSE [response |-> OK,
              users |-> [x \in DOMAIN users \ {user_id} |-> users[x]],
              restaurants |-> kept_restaurants,
              meals |-> kept_meals,
              orders |-> kept_orders]

\* whether the route counts the administrators: the user to delete is an
\* administrator and is the caller
deletes_self(user_id, current_user) ==
    LET user == get_user_by_id(user_id)
    IN  /\ Found(user)
        /\ user.role = ADMIN
        /\ user.email = current_user.email

\* DELETE /users/{user_id}, given the rows that get_users() has returned
delete_user_route(user_id, current_user, all_users) ==
    IF /\ deletes_self(user_id, current_user)
       /\ admin_count(all_users) = 1
    THEN [response |->
             HTTPException(400, <<"Cannot delete the last admin user">>),
          users |-> users, restaurants |-> restaurants, meals |-> meals,
          orders |-> orders]
    ELSE delete_user(user_id)

\* the route, handled with no other request in between; get_users is
\* called only when the caller deletes themself
DeleteUser(u, user_id) ==
    LET auth == get_current_admin(u)
    IN  IF auth # OK
        THEN /\ response' = auth
             /\ UNCHANGED <<engine, users, restaurants, meals, coupons,
                            orders, next_order_id, session>>
        ELSE \E all_users \in IF deletes_self(user_id, users[u])
                              THEN get_users(0, DefaultLimit) ELSE {{}} :
                LET out == delete_user_route(user_id, users[u], all_users)
                IN  /\ response' = IF out.response = OK
                                   THEN HTTPException(204, <<"No Content">>)
                                   ELSE out.response
                    /\ users' = out.users
                    /\ restaurants' = out.restaurants
                    /\ meals' = out.meals
                    /\ orders' = out.orders
                    /\ UNCHANGED <<engine, coupons, next_order_id, session>>

(***************************************************************************)
(* Specifications.                                                         *)
(***************************************************************************)
\* the rows of the store before the first order is placed
Store ==
    /\ users = [id \in UserIds |->
                  User(id, CASE id \in {"c1", "c2"} -> CUSTOMER
                             [] id \in {"w1", "w2"} -> RESTAURANT_OWNER
                             [] OTHER -> ADMIN)]
    /\ restaurants = [id \in RestaurantIds |->
                        Restaurant(id, IF id = "r1" THEN "w1" ELSE "w2")]
    /\ meals = [id \in MealIds |->
                  CASE id = "m1" -> Meal(id, 1599, "r1")
                    [] id = "m2" -> Meal(id, 1299, "r1")
                    [] OTHER -> Meal(id, 850, "r2")]
    /\ coupons = [id \in CouponIds |->
                    IF id = "k1" THEN Coupon(id, "DISCOUNT10", 1000, TRUE)
                    ELSE Coupon(id, "EXPIRED50", 5000, FALSE)]
    /\ orders = <<>>
    /\ next_order_id = 1
    /\ session = [s \in Sessions |-> Idle]
    /\ response = OK

\* the lifecycle specifications run on the database of production; their
\* orders are whole numbers of cents, which both engines store alike
Init ==
    /\ engine = "postgresql"
    /\ Store

\* the specifications that price orders run on either database
InitEngines ==
    /\ engine \in Engines
    /\ Store

\* the carts of the lifecycle specifications: one meal ordered from
\* restaurant r1 (m3 is a meal of r2), no tip, no coupon
LifecycleOrders ==
    [restaurant_id : {"r1"},
     items : {<<[meal_id |-> "m1", quantity |-> 1]>>,
              <<[meal_id |-> "m3", quantity |-> 1]>>},
     tip_amount : {0},
     coupon_code : {NULL}]

(***************************************************************************)
(* Requests to create_order (schemas/order.py OrderCreate): a restaurant   *)
(* id, one to MaxLines cart lines of a meal id and a quantity from 1 to    *)
(* MaxQuantity, a tip in units of 10^-6 and an optional coupon code.  The  *)
(* ids r9 and m9 and the code NOPE name no row.                            *)
(***************************************************************************)
CartRestaurants == RestaurantIds \cup {"r9"}
CartMeals == MealIds \cup {"m9"}
CouponCodes == {NULL, "", "DISCOUNT10", "EXPIRED50", "NOPE"}

CartLines(meal_ids, quantities) ==
    UNION {[1..n -> [meal_id : meal_ids, quantity : quantities]] :
              n \in 1..MaxLines}

OrderCreate(restaurant_ids, items, tips, coupon_codes) ==
    [restaurant_id : restaurant_ids, items : items, tip_amount : tips,
     coupon_code : coupon_codes]

\* requests that differ in what the checks of create_order look at
CheckedOrders ==
    OrderCreate(CartRestaurants, CartLines(CartMeals, {1}), {0},
                CouponCodes \ {""})

\* one request for each check that create_order makes after the role check
RejectedOrders ==
    {[restaurant_id |-> "r9", tip_amount |-> 0, coupon_code |-> NULL,
      items |-> <<[meal_id |-> "m1", quantity |-> 1]>>],
     [restaurant_id |-> "r1", tip_amount |-> 0, coupon_code |-> NULL,
      items |-> <<[meal_id |-> "m1", quantity |-> 1],
                  [meal_id |-> "m9", quantity |-> 1]>>],
     [restaurant_id |-> "r1", tip_amount |-> 0, coupon_code |-> NULL,
      items |-> <<[meal_id |-> "m1", quantity |-> 1],
                  [meal_id |-> "m3", quantity |-> 1]>>],
     [restaurant_id |-> "r1", tip_amount |-> 0, coupon_code |-> "NOPE",
      items |-> <<[meal_id |-> "m1", quantity |-> 1]>>],
     [restaurant_id |-> "r1", tip_amount |-> 0, coupon_code |-> "EXPIRED50",
      items |-> <<[meal_id |-> "m1", quantity |-> 1]>>]}

\* tips in units of 10^-6: none, 5.00 and 1.005
Tips == {0, 5000000, 1005000}

\* requests that pass the checks while r1 is open and differ in what is
\* priced: the lines and quantities of the cart, the tip and the coupon
PricedOrders ==
    OrderCreate({"r1"}, CartLines({"m1", "m2"}, 1..MaxQuantity), Tips,
                {NULL, "DISCOUNT10"})

\* requests handled one after the other
Next ==
    \/ \E u \in UserIds, order_data \in LifecycleOrders :
          CreateOrder(u, order_data)
    \/ \E u \in UserIds, order_id \in OrderIds, new_status \in OrderStatus :
          UpdateOrderStatus(u, order_id, new_status)
    \/ \E u \in UserIds, order_id \in OrderIds : DeleteOrder(u, order_id)

Spec == Init /\ [][Next]_vars

\* the principals of the concurrent specification: the customer of the
\* orders, the owner of their restaurant and the administrator
ConcUsers == {"c1", "w1", "a1"}

Rows(order_id) ==
    IF order_id \in DOMAIN orders
    THEN Len(orders[order_id].status_history) ELSE 0

\* status updates handled by concurrent workers
NextConc ==
    \/ \E order_data \in LifecycleOrders : CreateOrder("c1", order_data)
    \/ \E s \in Sessions, u \in ConcUsers, order_id \in OrderIds,
          new_status \in OrderStatus :
          /\ Rows(order_id) < MaxRows
          /\ UpdateBegin(s, u, order_id, new_status)
    \/ \E s \in Sessions : UpdateCommit(s)
    \/ \E order_id \in OrderIds : DeleteOrder("a1", order_id)

SpecConc == Init /\ [][NextConc]_vars

\* creations by customer c1 and status updates to processing and canceled
\* by owner w1 as transactions of concurrent workers, any of which may fail
\* before its commit
NextTx ==
    \/ \E s \in Sessions, order_data \in LifecycleOrders :
          CreateFlush(s, "c1", order_data)
    \/ \E s \in Sessions : CreateCommit(s)
    \/ \E s \in Sessions, order_id \in OrderIds,
          new_status \in {PROCESSING, CANCELED} :
          /\ Rows(order_id) < MaxRows
          /\ UpdateBegin(s, "w1", order_id, new_status)
    \/ \E s \in Sessions : UpdateCommit(s)
    \/ \E s \in Sessions : Rollback(s)
    \/ \E order_id \in OrderIds : DeleteOrder("a1", order_id)

SpecTx == Init /\ [][NextTx]_vars

\* the requests to create_order of the specification of order creation:
\* one meal of r1 with no tip, with a tip of 5.00, with the coupon
\* DISCOUNT10, with the empty coupon code; a meal that is missing with an
\* inactive coupon; a meal of r2 after a meal of r1; a coupon that is
\* unknown
PlacedOrders ==
    OrderCreate({"r1"}, {<<[meal_id |-> "m1", quantity |-> 1]>>},
                {0, 5000000}, {NULL})
    \cup OrderCreate({"r1"}, {<<[meal_id |-> "m1", quantity |-> 1]>>},
                     {0}, {"DISCOUNT10", "", "NOPE"})
    \cup OrderCreate({"r1"}, {<<[meal_id |-> "m9", quantity |-> 1]>>},
                     {0}, {"EXPIRED50"})
    \cup OrderCreate({"r1"}, {<<[meal_id |-> "m1", quantity |-> 1],
                                [meal_id |-> "m3", quantity |-> 1]>>},
                     {0}, {NULL})

\* the principals of the specification of order creation
CreateUsers == {"c1", "w1", "a1"}

\* orders are created while restaurant r1 and meals m1 and m2 are blocked and
\* unblocked by the owner or the administrator and coupon k1 is switched
\* off and on by the administrator
NextCreate ==
    \/ \E u \in CreateUsers, order_data \in PlacedOrders :
          CreateOrder(u, order_data)
    \/ \E u \in {"w1", "a1"}, is_blocked \in BOOLEAN :
          UpdateRestaurant(u, "r1", [is_blocked |-> is_blocked])
    \/ \E u \in {"w1", "a1"}, meal_id \in {"m1", "m2"}, is_blocked \in BOOLEAN :
          UpdateMeal(u, meal_id, [is_blocked |-> is_blocked])
    \/ \E u \in {"w1", "a1"}, is_active \in BOOLEAN :
          UpdateCoupon(u, "k1", [is_active |-> is_active])

SpecCreate == InitEngines /\ [][NextCreate]_vars

\* the requests to create_order of the specification of the store: one meal
\* at 15.99 with the coupon DISCOUNT10 and no tip or a tip of 5.00; two
\* lines, in either order, with a tip of 1.005 and no coupon
StoreOrders ==
    OrderCreate({"r1"}, {<<[meal_id |-> "m1", quantity |-> 1]>>},
                {0, 5000000}, {"DISCOUNT10"})
    \cup OrderCreate({"r1"}, {<<[meal_id |-> "m1", quantity |-> 1],
                                [meal_id |-> "m2", quantity |-> 2]>>,
                              <<[meal_id |-> "m2", quantity |-> 2],
                                [meal_id |-> "m1", quantity |-> 1]>>},
                     {1005000}, {NULL})

\* the discounts the administrator gives coupon k1, in hundredths of a
\* percent: 10% and 100%
StoreDiscounts == {1000, 10000}

\* customers place orders and list them, the owner of r1 moves them on or
\* cancels them, the administrator changes, switches and deletes coupon k1
\* and deletes orders, the owner deletes restaurant r1
NextStore ==
    \/ \E u \in {"c1", "c2"}, order_data \in StoreOrders :
          CreateOrder(u, order_data)
    \/ \E order_id \in OrderIds, new_status \in {PROCESSING, CANCELED} :
          UpdateOrderStatus("w1", order_id, new_status)
    \/ \E u \in {"a1", "c1"}, order_id \in OrderIds : DeleteOrder(u, order_id)
    \/ \E discount_percentage \in StoreDiscounts :
          UpdateCoupon("a1", "k1",
                       [discount_percentage |-> discount_percentage])
    \/ \E is_active \in BOOLEAN :
          UpdateCoupon("a1", "k1", [is_active |-> is_active])
    \/ \E u \in {"a1", "w1"} : DeleteCoupon(u, "k1")
    \/ \E u \in {"w1", "c1"} : DeleteRestaurant(u, "r1")
    \/ \E u \in {"c1", "c2", "w1"} : ListMyOrders(u)

SpecStore == InitEngines /\ [][NextStore]_vars

\* the prices the owner gives meal m1, in cents
MealPrices == {1599, 1799}

\* orders are placed and moved on while the owner of r1 changes the price
\* of meal m1 and blocks and unblocks it
NextItems ==
    \/ \E order_data \in StoreOrders : CreateOrder("c1", order_data)
    \/ \E u \in {"c1", "w1"}, order_id \in OrderIds,
          new_status \in {PROCESSING, CANCELED} :
          UpdateOrderStatus(u, order_id, new_status)
    \/ \E price \in MealPrices : UpdateMeal("w1", "m1", [price |-> price])
    \/ \E is_blocked \in BOOLEAN :
          UpdateMeal("w1", "m1", [is_blocked |-> is_blocked])

SpecItems == Init /\ [][NextItems]_vars

\* orders are priced while the owner of r1 changes the price of meal m1 and
\* the administrator changes the discount of coupon k1
NextPricing ==
    \/ \E order_data \in StoreOrders : CreateOrder("c1", order_data)
    \/ \E price \in MealPrices : UpdateMeal("w1", "m1", [price |-> price])
    \/ \E discount_percentage \in StoreDiscounts :
          UpdateCoupon("a1", "k1",
                       [discount_percentage |-> discount_percentage])

SpecPricing == InitEngines /\ [][NextPricing]_vars

(***************************************************************************)
(* The specification of the reads: the two customers place orders at the   *)
(* two restaurants, the owner of r1 and the customers move the orders on,  *)
(* and every user reads through the three read routes.                     *)
(***************************************************************************)
ReadOrders ==
    [restaurant_id : {"r1"},
     items : {<<[meal_id |-> "m1", quantity |-> 1]>>},
     tip_amount : {0},
     coupon_code : {NULL}]
       \cup
    [restaurant_id : {"r2"},
     items : {<<[meal_id |-> "m3", quantity |-> 1]>>},
     tip_amount : {0},
     coupon_code : {NULL}]

NextRead ==
    \/ \E u \in {"c1", "c2"}, order_data \in ReadOrders :
          CreateOrder(u, order_data)
    \/ \E u \in {"c1", "w1"}, order_id \in OrderIds,
          new_status \in {PROCESSING, CANCELED} :
          UpdateOrderStatus(u, order_id, new_status)
    \/ \E u \in UserIds, order_id \in OrderIds : GetOrder(u, order_id)
    \/ \E u \in UserIds : ListOrders(u, 0, DefaultLimit)
    \/ \E u \in UserIds, restaurant_id \in CartRestaurants :
          ListRestaurantOrders(u, restaurant_id)

SpecRead == Init /\ [][NextRead]_vars

(***************************************************************************)
(* The specification of the restaurants: every user asks to create, to     *)
(* block or reopen and to delete restaurants, and customer c1 orders from  *)
(* restaurant r1.                                                          *)
(***************************************************************************)
RestaurantCreate == [name : {"Bistro"}]

NextRestaurants ==
    \/ \E u \in UserIds, restaurant_data \in RestaurantCreate :
          CreateRestaurant(u, restaurant_data)
    \/ \E u \in UserIds, restaurant_id \in RestaurantIds \cup NewRestaurantIds,
          is_blocked \in BOOLEAN :
          UpdateRestaurant(u, restaurant_id, [is_blocked |-> is_blocked])
    \/ \E u \in UserIds, restaurant_id \in {"r1"} \cup NewRestaurantIds :
          DeleteRestaurant(u, restaurant_id)
    \/ \E order_data \in ReadOrders : CreateOrder("c1", order_data)

SpecRestaurants == Init /\ [][NextRestaurants]_vars

(***************************************************************************)
(* The specification of the registrations: visitors register one after the *)
(* other and through concurrent workers, with an email that is registered  *)
(* and with emails that are not, users ask to create users, and the        *)
(* administrator changes emails.                                           *)
(***************************************************************************)
Emails == {"c1@test.com", "new@test.com", "other@test.com"}

UserCreate == [email : Emails, password : {"secret"}, role : {CUSTOMER}]

NextRegister ==
    \/ \E user_data \in UserCreate : Register(user_data)
    \/ \E s \in Sessions, user_data \in UserCreate :
          RegisterBegin(s, user_data)
    \/ \E s \in Sessions : RegisterCommit(s)
    \/ \E u \in {"a1", "c1"}, user_data \in UserCreate :
          CreateUser(u, user_data)
    \/ \E user_id \in {"c2"} \cup NewUserIds, email \in Emails :
          UpdateUser("a1", user_id, [email |-> email])

SpecRegister == Init /\ [][NextRegister]_vars

(***************************************************************************)
(* The specification of the accounts: customer c1 orders from restaurant   *)
(* r1, the customer and the owner of r1 move the order on, users log in,   *)
(* and the administrator blocks, deactivates and restores c1 and blocks    *)
(* and restores w1.                                                        *)
(***************************************************************************)
AccountOrders ==
    [restaurant_id : {"r1"},
     items : {<<[meal_id |-> "m1", quantity |-> 1]>>},
     tip_amount : {0},
     coupon_code : {NULL}]

UserLogin ==
    [email : {"c1@test.com", "w1@test.com"}, password : {"secret", "wrong"}]

NextUsers ==
    \/ \E order_data \in AccountOrders : CreateOrder("c1", order_data)
    \/ \E u \in {"c1", "w1"}, order_id \in OrderIds,
          new_status \in {PROCESSING, CANCELED} :
          UpdateOrderStatus(u, order_id, new_status)
    \/ \E credentials \in UserLogin : Login(credentials)
    \/ \E u \in {"a1", "c1"}, is_blocked \in BOOLEAN :
          UpdateUser(u, "c1", [is_blocked |-> is_blocked])
    \/ \E is_active \in BOOLEAN :
          UpdateUser("a1", "c1", [is_active |-> is_active])
    \/ \E is_blocked \in BOOLEAN :
          UpdateUser("a1", "w1", [is_blocked |-> is_blocked])

SpecUsers == Init /\ [][NextUsers]_vars

(***************************************************************************)
(* The specification of the roles: customer c1 orders from restaurant r1,  *)
(* the customer, the owner of r1 and w2, who owns restaurant r2, move the  *)
(* order on, and the administrator makes w2 an administrator and a         *)
(* restaurant owner again.                                                 *)
(***************************************************************************)
NextRoles ==
    \/ \E order_data \in AccountOrders : CreateOrder("c1", order_data)
    \/ \E u \in {"c1", "w1", "w2"}, order_id \in OrderIds,
          new_status \in {PROCESSING, CANCELED, IN_ROUTE} :
          UpdateOrderStatus(u, order_id, new_status)
    \/ \E role \in {RESTAURANT_OWNER, ADMIN} :
          UpdateUser("a1", "w2", [role |-> role])

SpecRoles == Init /\ [][NextRoles]_vars

(***************************************************************************)
(* The specification of the administrators.  The store holds the users of  *)
(* Store and the customers of Crowd, who have registered since: one user   *)
(* more than get_users returns.  Users ask to delete the administrator,    *)
(* customers c1 and c2, owner w1 and the customer u1 of the crowd, and     *)
(* administrators make c1 and w1 administrators.                           *)
(***************************************************************************)
Crowd == {"u" \o ToString(n) : n \in 1..(DefaultLimit + 1 - Cardinality(UserIds))}

InitCrowd ==
    /\ engine = "postgresql"
    /\ users = [id \in UserIds \cup Crowd |->
                  User(id, CASE id \in {"w1", "w2"} -> RESTAURANT_OWNER
                             [] id = "a1" -> ADMIN
                             [] OTHER -> CUSTOMER)]
    /\ restaurants = [id \in RestaurantIds |->
                        Restaurant(id, IF id = "r1" THEN "w1" ELSE "w2")]
    /\ meals = [id \in MealIds |->
                  CASE id = "m1" -> Meal(id, 1599, "r1")
                    [] id = "m2" -> Meal(id, 1299, "r1")
                    [] OTHER -> Meal(id, 850, "r2")]
    /\ coupons = [id \in CouponIds |->
                    IF id = "k1" THEN Coupon(id, "DISCOUNT10", 1000, TRUE)
                    ELSE Coupon(id, "EXPIRED50", 5000, FALSE)]
    /\ orders = <<>>
    /\ next_order_id = 1
    /\ session = [s \in Sessions |-> Idle]
    /\ response = OK

NextAdmins ==
    \/ \E u \in {"a1", "c1", "w1"},
          user_id \in {"a1", "c1", "c2", "w1", "u1"} :
          DeleteUser(u, user_id)
    \/ \E u \in {"a1", "c1"}, user_id \in {"c1", "w1"} :
          UpdateUser(u, user_id, [role |-> ADMIN])

SpecAdmins == InitCrowd /\ [][NextAdmins]_vars

(***************************************************************************)
(* Properties.                                                             *)
(***************************************************************************)
\* the allowed transition table of the status transition guard, as pairs
TransitionTable ==
    {<<PLACED, CANCELED>>, <<PLACED, PROCESSING>>,
     <<PROCESSING, CANCELED>>, <<PROCESSING, IN_ROUTE>>,
     <<IN_ROUTE, DELIVERED>>, <<DELIVERED, RECEIVED>>}

InvalidState == 400
Forbidden == 403
NotFound == 404
BusinessErrors == {InvalidState, Forbidden, NotFound}

\* the statuses of the history rows of an order, oldest first
Statuses(order) ==
    [i \in 1..Len(order.status_history) |-> order.status_history[i].status]

LastRow(order) == order.status_history[Len(order.status_history)]

\* update_order_status(o, t) by user u, handled in the current state,
\* succeeds: it answers 200, and order o alone is changed, to status t with
\* the history row of u appended
Succeeds(u, o, t) ==
    LET out == update_order_status(o, t, users[u])
    IN  /\ out.response = OK
        /\ out.orders = [orders EXCEPT ![o] =
               [@ EXCEPT !.status = t,
                         !.status_history =
                             Append(@, [status |-> t,
                                        changed_by_user_id |-> u])]]

\* update_order_status(o, t) by user u, handled in the current state, fails
\* with status_code and leaves the orders as they are
Fails(u, o, t, status_code) ==
    LET out == update_order_status(o, t, users[u])
    IN  /\ out.response.status_code = status_code
        /\ out.orders = orders

\* C1: in every reachable state, an update_order_status on an existing order
\* whose (current status, target) pair is not in the transition table fails
\* with InvalidState and the "Cannot transition" detail and changes nothing,
\* whoever asks: the table check comes before the role and ownership checks.
C1_IllegalPairIsInvalidState ==
    \A u \in UserIds, o \in DOMAIN orders, t \in OrderStatus :
        <<orders[o].status, t>> \notin TransitionTable
        => update_order_status(o, t, users[u])
              = [response |-> HTTPException(InvalidState,
                     <<"Cannot transition from", orders[o].status, t>>),
                 orders |-> orders]

\* C1 witness: a delivered order whose cancellation was refused with the
\* "Cannot transition" detail.
C1_Witness ==
    \E o \in DOMAIN orders :
        /\ orders[o].status = DELIVERED
        /\ response = HTTPException(InvalidState,
               <<"Cannot transition from", DELIVERED, CANCELED>>)

\* C2: with requests handled one after the other, the statuses an order has
\* gone through form a path of the transition table that starts at placed
\* and ends at the order's status.
C2_HistoryIsTablePath ==
    \A o \in DOMAIN orders :
        LET h == Statuses(orders[o])
        IN  /\ h[1] = PLACED
            /\ h[Len(h)] = orders[o].status
            /\ \A i \in 1..(Len(h) - 1) : <<h[i], h[i + 1]>> \in TransitionTable

\* C2 witness: an order that went the whole way from placed to received.
C2_Witness ==
    \E o \in DOMAIN orders :
        Statuses(orders[o])
            = <<PLACED, PROCESSING, IN_ROUTE, DELIVERED, RECEIVED>>

\* C3: update_order_status requests that run concurrently on one order are
\* serialized: each transition written was validated against the status
\* the writer before it left, so each history row follows the row before it
\* by the transition table.
C3_ConcurrentUpdatesSerialize ==
    \A o \in DOMAIN orders :
        LET h == Statuses(orders[o])
        IN  \A i \in 1..(Len(h) - 1) : <<h[i], h[i + 1]>> \in TransitionTable

C5_OtherCustomerNeverTransitions ==
    \A u \in UserIds, o \in DOMAIN orders, t \in OrderStatus :
        (users[u].role = CUSTOMER /\ u # orders[o].customer_id)
        => LET out == update_order_status(o, t, users[u])
           IN  /\ out.orders = orders
               /\ out.response.status_code \in {InvalidState, Forbidden}
               /\ <<orders[o].status, t>> \in TransitionTable
                  => out.response = HTTPException(Forbidden,
                                                  <<"Not your order">>)

\* C5 witness: an order still placed after "Not your order" was answered.
C5_Witness ==
    \E o \in DOMAIN orders :
        /\ orders[o].status = PLACED
        /\ response = HTTPException(Forbidden, <<"Not your order">>)

\* C6: the order's own customer succeeds on exactly placed -> canceled and
\* delivered -> received; asking for processing, in_route or delivered on
\* a pair of the table fails with Forbidden, and canceling an order in
\* processing fails with InvalidState.
C6_OwnCustomerTransitions ==
    \A u \in UserIds, o \in DOMAIN orders, t \in OrderStatus :
        (users[u].role = CUSTOMER /\ u = orders[o].customer_id)
        => LET pair == <<orders[o].status, t>>
               own == {<<PLACED, CANCELED>>, <<DELIVERED, RECEIVED>>}
           IN  /\ pair \in own => Succeeds(u, o, t)
               /\ pair \notin own
                  => Fails(u, o, t, InvalidState) \/ Fails(u, o, t, Forbidden)
               /\ (pair \in TransitionTable
                   /\ t \in {PROCESSING, IN_ROUTE, DELIVERED})
                  => Fails(u, o, t, Forbidden)
               /\ pair = <<PROCESSING, CANCELED>>
                  => Fails(u, o, t, InvalidState)

\* C6 witness: an order in processing whose customer was refused the
\* cancellation because the order is no longer placed.
C6_Witness ==
    \E o \in DOMAIN orders :
        /\ orders[o].status = PROCESSING
        /\ response = HTTPException(InvalidState,
               <<"Can only cancel orders that are in PLACED status">>)

\* C7: a restaurant owner transitions an order only if they own the order's
\* restaurant; on a pair of the table an owner who does not own it gets
\* Forbidden, and the one who does succeeds on every target but received,
\* which is Forbidden.
C7_RestaurantOwnerTransitions ==
    \A u \in UserIds, o \in DOMAIN orders, t \in OrderStatus :
        users[u].role = RESTAURANT_OWNER
        => LET owns == restaurants[orders[o].restaurant_id].owner_id = u
               legal == <<orders[o].status, t>> \in TransitionTable
           IN  /\ ~owns => update_order_status(o, t, users[u]).orders = orders
               /\ legal /\ ~owns => Fails(u, o, t, Forbidden)
               /\ legal /\ owns /\ t = RECEIVED => Fails(u, o, t, Forbidden)
               /\ legal /\ owns /\ t # RECEIVED => Succeeds(u, o, t)

\* C7 witness: an order in processing canceled by the owner of its
\* restaurant.
C7_Witness ==
    \E o \in DOMAIN orders :
        /\ Statuses(orders[o]) = <<PLACED, PROCESSING, CANCELED>>
        /\ users[LastRow(orders[o]).changed_by_user_id].role = RESTAURANT_OWNER
        /\ LastRow(orders[o]).changed_by_user_id
              = restaurants[orders[o].restaurant_id].owner_id
        /\ response = OK

\* C8: in every reachable state an administrator's update_order_status
\* succeeds on every pair of the transition table, on every order.
C8_AdministratorTransitions ==
    \A u \in UserIds, o \in DOMAIN orders, t \in OrderStatus :
        (users[u].role = ADMIN /\ <<orders[o].status, t>> \in TransitionTable)
        => Succeeds(u, o, t)

\* C8 witness: a delivered order marked received by an administrator.
C8_Witness ==
    \E o \in DOMAIN orders :
        /\ orders[o].status = RECEIVED
        /\ users[LastRow(orders[o]).changed_by_user_id].role = ADMIN
        /\ response = OK

\* C9 as claimed: every history row with status received was written by the
\* customer the order belongs to.
C9_ReceivedOnlyByCustomer ==
    \A o \in DOMAIN orders :
        \A i \in 1..Len(orders[o].status_history) :
            orders[o].status_history[i].status = RECEIVED
            => orders[o].status_history[i].changed_by_user_id
                  = orders[o].customer_id

\* C9 as amended: every history row with status received is written by the
\* customer the order belongs to or by an administrator.
C9_ReceivedByCustomerOrAdmin ==
    [][\A o \in DOMAIN orders' :
          LET h == orders'[o].status_history
              old == IF o \in DOMAIN orders
                     THEN Len(orders[o].status_history) ELSE 0
          IN  \A i \in (old + 1)..Len(h) :
                  h[i].status = RECEIVED
                  => \/ h[i].changed_by_user_id = orders'[o].customer_id
                     \/ users[h[i].changed_by_user_id].role = ADMIN]_vars

\* C9 witness: a delivered order marked received by its customer.
C9_Witness ==
    \E o \in DOMAIN orders :
        /\ LastRow(orders[o]) = [status |-> RECEIVED,
                                 changed_by_user_id |-> orders[o].customer_id]
        /\ response = OK

C12_StatusIsLastHistoryRow ==
    \A o \in DOMAIN orders :
        /\ Len(orders[o].status_history) >= 1
        /\ orders[o].status = LastRow(orders[o]).status

\* C12 witness: an update_order_status that failed at its commit, on an
\* order that another update had moved to processing.
C12_Witness ==
    \E o \in DOMAIN orders :
        /\ orders[o].status = PROCESSING
        /\ Len(orders[o].status_history) = 2
        /\ response = HTTPException(500, <<"commit failed", "validated">>)

\* C13: create_order is atomic: every order a reader observes has its
\* items, at least one, and starts its history with the row (placed, its
\* customer); an order becomes visible only at the commit of the session
\* that flushed it, with one item per cart line; a creation that fails
\* after the flush leaves the orders as they were, and its order id is not
\* among them.
C13_CreateOrderIsAtomic ==
    /\ [](\A o \in DOMAIN orders :
             /\ Len(orders[o].items) >= 1
             /\ orders[o].status_history[1]
                   = [status |-> PLACED,
                      changed_by_user_id |-> orders[o].customer_id]
             /\ o < next_order_id
             /\ \A s \in Sessions :
                    session[s].pc = "flushed" => session[s].order_id # o)
    /\ [][/\ \A o \in DOMAIN orders' \ DOMAIN orders :
                \E s \in Sessions :
                    /\ session[s].pc = "flushed"
                    /\ session[s].order_id = o
                    /\ session'[s] = Idle
                    /\ response' = HTTPException(201, <<"Created">>)
                    /\ Len(orders'[o].items)
                          = Len(session[s].order_data.items)
                    /\ \A i \in 1..Len(orders'[o].items) :
                           /\ orders'[o].items[i].meal_id
                                 = session[s].order_data.items[i].meal_id
                           /\ orders'[o].items[i].quantity
                                 = session[s].order_data.items[i].quantity
                    /\ Len(orders'[o].status_history) = 1
          /\ \A s \in Sessions :
                (session[s].pc = "flushed" /\ session'[s] = Idle
                 /\ response'.status_code # 201)
                => /\ orders' = orders
                   /\ session[s].order_id \notin DOMAIN orders'
                   /\ next_order_id' = next_order_id]_vars

\* C13 witness: a creation that failed after the order row was flushed;
\* no order is visible and the order id is used up.
C13_Witness ==
    /\ response = HTTPException(500, <<"commit failed", "flushed">>)
    /\ orders = <<>>
    /\ next_order_id = 2

\* C14: a create_order, update_order_status or delete_order that fails
\* answers Forbidden, NotFound or InvalidState and leaves the orders, with
\* their items and history rows, exactly as they were: in every reachable
\* state for every request, and in every step that answers one of these
\* errors.
C14_FailureWritesNothing ==
    /\ [](\A u \in UserIds :
             /\ \A order_data \in LifecycleOrders \cup RejectedOrders :
                    LET out == create_order(order_data, users[u])
                    IN  out.response # OK
                        => /\ out.response.status_code \in BusinessErrors
                           /\ out.orders = orders
             /\ \A o \in OrderIds, t \in OrderStatus :
                    LET out == update_order_status(o, t, users[u])
                    IN  out.response # OK
                        => /\ out.response.status_code \in BusinessErrors
                           /\ out.orders = orders
             /\ \A o \in OrderIds :
                    LET out == delete_order(o, users[u])
                    IN  out.response # OK
                        => /\ out.response.status_code \in BusinessErrors
                           /\ out.orders = orders)
    /\ [][response'.status_code \in BusinessErrors
          => orders' = orders /\ next_order_id' = next_order_id]_vars

\* C14 witness: an order in processing that is still there after a
\* delete_order was refused.
C14_Witness ==
    \E o \in DOMAIN orders :
        /\ orders[o].status = PROCESSING
        /\ response = HTTPException(Forbidden,
                                    <<"Only admins can delete orders">>)

\* the preconditions of createOrder, each by itself: the error of a
\* precondition that is violated, or 0
RoleError(u) ==
    IF users[u].role = CUSTOMER THEN 0 ELSE Forbidden

RestaurantError(order_data) ==
    IF order_data.restaurant_id \notin DOMAIN restaurants THEN NotFound
    ELSE IF restaurants[order_data.restaurant_id].is_blocked
    THEN InvalidState
    ELSE 0

LineError(order_data, i) ==
    LET meal_id == order_data.items[i].meal_id
    IN  IF meal_id \notin DOMAIN meals THEN NotFound
        ELSE IF meals[meal_id].is_blocked THEN InvalidState
        ELSE IF meals[meal_id].restaurant_id # order_data.restaurant_id
        THEN InvalidState
        ELSE 0

BadLines(order_data) ==
    {i \in 1..Len(order_data.items) : LineError(order_data, i) # 0}

FirstBadLine(order_data) ==
    CHOOSE i \in BadLines(order_data) :
        \A j \in BadLines(order_data) : i <= j

CouponError(order_data) ==
    IF order_data.coupon_code = NULL THEN 0
    ELSE IF \A k \in DOMAIN coupons :
                coupons[k].code # order_data.coupon_code
    THEN NotFound
    ELSE IF \E k \in DOMAIN coupons :
                /\ coupons[k].code = order_data.coupon_code
                /\ ~coupons[k].is_active
    THEN InvalidState
    ELSE 0

\* the precondition group a response of create_order reports on
Stage(resp) ==
    CASE resp.detail[1] = "Only customers can place orders" -> "role"
      [] resp.detail[1] \in {"Restaurant not found", "Restaurant is blocked"}
            -> "restaurant"
      [] resp.detail[1] \in {"Meal not found", "Meal is blocked",
                            "All meals must be from the same restaurant"}
            -> "meal"
      [] resp.detail[1] \in {"Coupon not found", "Coupon is not active"}
            -> "coupon"
      [] OTHER -> "none"

\* the error of the earliest precondition that is violated: its group and
\* its status code; group "none" if all hold
FirstError(u, order_data) ==
    IF RoleError(u) # 0
    THEN [stage |-> "role", status_code |-> RoleError(u)]
    ELSE IF RestaurantError(order_data) # 0
    THEN [stage |-> "restaurant",
          status_code |-> RestaurantError(order_data)]
    ELSE IF BadLines(order_data) # {}
    THEN [stage |-> "meal",
          status_code |-> LineError(order_data, FirstBadLine(order_data))]
    ELSE IF CouponError(order_data) # 0
    THEN [stage |-> "coupon", status_code |-> CouponError(order_data)]
    ELSE [stage |-> "none", status_code |-> 0]

C16_OnlyCustomersCreate ==
    /\ [](\A u \in UserIds, order_data \in CheckedOrders :
             LET out == create_order(order_data, users[u])
             IN  /\ users[u].role # CUSTOMER
                    => /\ out.response
                             = HTTPException(Forbidden,
                                   <<"Only customers can place orders">>)
                       /\ out.orders = orders
                 /\ out.response = OK
                    => /\ users[u].role = CUSTOMER
                       /\ DOMAIN out.orders
                             = DOMAIN orders \cup {next_order_id}
                       /\ out.orders[next_order_id].customer_id = u)
    /\ [][\A o \in DOMAIN orders' \ DOMAIN orders :
             /\ users[orders'[o].customer_id].role = CUSTOMER
             /\ response' = HTTPException(201, <<"Created">>)]_vars

\* C16 witness: an order of customer c1 next to the refusal of an
\* administrator's or owner's create_order.
C16_Witness ==
    /\ \E o \in DOMAIN orders : orders[o].customer_id = "c1"
    /\ response = HTTPException(Forbidden,
                                <<"Only customers can place orders">>)

\* the cart lines whose meal exists and belongs to another restaurant than
\* the order's
ForeignLines(order_data) ==
    {i \in 1..Len(order_data.items) :
        /\ order_data.items[i].meal_id \in DOMAIN meals
        /\ meals[order_data.items[i].meal_id].restaurant_id
              # order_data.restaurant_id}

\* the cart lines whose meal does not exist
MissingLines(order_data) ==
    {i \in 1..Len(order_data.items) :
        order_data.items[i].meal_id \notin DOMAIN meals}

\* C17 as claimed: a customer's create_order for an existing restaurant
\* with a cart that has a meal of another restaurant, at any line, fails
\* with InvalidState and writes nothing.
C17_MixedCartIsInvalidState ==
    \A u \in UserIds, order_data \in CheckedOrders :
        (/\ users[u].role = CUSTOMER
         /\ order_data.restaurant_id \in DOMAIN restaurants
         /\ ForeignLines(order_data) # {})
        => LET out == create_order(order_data, users[u])
           IN  /\ out.response.status_code = InvalidState
               /\ out.orders = orders

\* C17 as amended: a create_order with a cart that has a meal of another
\* restaurant, at any line, fails and writes nothing.  The error is
\* Forbidden if the principal is not a customer; else NotFound if the
\* restaurant does not exist; else InvalidState if the restaurant is
\* blocked; else NotFound if the first cart line that fails a check names
\* a missing meal; else InvalidState.
C17_MixedCartIsRejected ==
    \A u \in UserIds, order_data \in CheckedOrders :
        ForeignLines(order_data) # {}
        => LET out == create_order(order_data, users[u])
               expected ==
                   IF users[u].role # CUSTOMER THEN Forbidden
                   ELSE IF order_data.restaurant_id \notin DOMAIN restaurants
                   THEN NotFound
                   ELSE IF restaurants[order_data.restaurant_id].is_blocked
                   THEN InvalidState
                   ELSE IF FirstBadLine(order_data)
                              \in MissingLines(order_data)
                   THEN NotFound
                   ELSE InvalidState
           IN  /\ out.response.status_code = expected
               /\ out.orders = orders

\* C17 witness: the cart with a meal of r2 after a meal of r1 was refused
\* and no order id was handed out.
C17_Witness ==
    /\ response = HTTPException(InvalidState,
           <<"All meals must be from the same restaurant">>)
    /\ orders = <<>>
    /\ next_order_id = 1

\* the cart lines whose meal exists and is blocked
BlockedLines(order_data) ==
    {i \in 1..Len(order_data.items) :
        /\ order_data.items[i].meal_id \in DOMAIN meals
        /\ meals[order_data.items[i].meal_id].is_blocked}

\* the restaurant of the request exists and is blocked
BlockedRestaurant(order_data) ==
    /\ order_data.restaurant_id \in DOMAIN restaurants
    /\ restaurants[order_data.restaurant_id].is_blocked

\* a create_order that succeeds finds the restaurant there and not blocked
\* and every cart meal there, not blocked and of that restaurant
SuccessImpliesOpen(u, order_data) ==
    create_order(order_data, users[u]).response = OK
    => /\ order_data.restaurant_id \in DOMAIN restaurants
       /\ ~restaurants[order_data.restaurant_id].is_blocked
       /\ \A i \in 1..Len(order_data.items) :
              LET meal_id == order_data.items[i].meal_id
              IN  /\ meal_id \in DOMAIN meals
                  /\ ~meals[meal_id].is_blocked
                  /\ meals[meal_id].restaurant_id = order_data.restaurant_id

\* C18 as claimed: a create_order that succeeds finds the restaurant there
\* and not blocked and every cart meal there, not blocked and of that
\* restaurant; a customer's create_order for a restaurant that is blocked,
\* or for an existing restaurant with a blocked meal in the cart, fails
\* with InvalidState.
C18_BlockedIsInvalidState ==
    \A u \in UserIds, order_data \in CheckedOrders :
        /\ SuccessImpliesOpen(u, order_data)
        /\ (/\ users[u].role = CUSTOMER
            /\ order_data.restaurant_id \in DOMAIN restaurants
            /\ BlockedRestaurant(order_data) \/ BlockedLines(order_data) # {})
           => create_order(order_data, users[u]).response.status_code
                 = InvalidState

\* C18 as amended: a create_order that succeeds finds the restaurant there
\* and not blocked and every cart meal there, not blocked and of that
\* restaurant; a create_order for a blocked restaurant or with a blocked
\* meal in the cart fails and writes nothing.  The error is Forbidden if
\* the principal is not a customer; else NotFound if the restaurant does
\* not exist; else InvalidState if the restaurant is blocked; else
\* NotFound if the first cart line that fails a check names a missing
\* meal; else InvalidState.
C18_BlockedNeverOrdered ==
    \A u \in UserIds, order_data \in CheckedOrders :
        /\ SuccessImpliesOpen(u, order_data)
        /\ (BlockedRestaurant(order_data) \/ BlockedLines(order_data) # {})
           => LET out == create_order(order_data, users[u])
                  expected ==
                      IF users[u].role # CUSTOMER THEN Forbidden
                      ELSE IF order_data.restaurant_id
                                 \notin DOMAIN restaurants
                      THEN NotFound
                      ELSE IF BlockedRestaurant(order_data)
                      THEN InvalidState
                      ELSE IF FirstBadLine(order_data)
                                 \in MissingLines(order_data)
                      THEN NotFound
                      ELSE InvalidState
              IN  /\ out.response.status_code = expected
                  /\ out.orders = orders

\* C18 witness: restaurant r1 is blocked and a customer's create_order was
\* refused for it.
C18_Witness ==
    /\ restaurants["r1"].is_blocked
    /\ response = HTTPException(InvalidState, <<"Restaurant is blocked">>)

\* C19: a create_order given a coupon code, by a customer for a restaurant
\* and a cart that pass their checks: if no coupon has the code the
\* answer is NotFound, if the coupon is not active it is InvalidState, and
\* an order that is created carries the id of the active coupon with that
\* code; no order is created without a coupon when a code was given.
C19_SuppliedCouponIsChecked ==
    [][\A u \in CreateUsers, order_data \in PlacedOrders :
          (/\ CreateOrder(u, order_data)
           /\ order_data.coupon_code # NULL
           /\ RoleError(u) = 0
           /\ RestaurantError(order_data) = 0
           /\ BadLines(order_data) = {})
          => /\ CouponError(order_data) = NotFound
                => response' = HTTPException(NotFound, <<"Coupon not found">>)
             /\ CouponError(order_data) = InvalidState
                => response' = HTTPException(InvalidState,
                                             <<"Coupon is not active">>)
             /\ \A o \in DOMAIN orders' \ DOMAIN orders :
                    /\ orders'[o].coupon_id \in DOMAIN coupons
                    /\ coupons[orders'[o].coupon_id].code
                          = order_data.coupon_code
                    /\ coupons[orders'[o].coupon_id].is_active]_vars

\* the sum of unit price x quantity over the cart lines, in cents
RECURSIVE LinesTotal(_)
LinesTotal(items) ==
    IF items = <<>> THEN 0
    ELSE meals[Head(items).meal_id].price * Head(items).quantity
         + LinesTotal(Tail(items))

\* the reference computation in units of 10^-6: the subtotal, less
\* subtotal x discount_percentage / 100 if the order has a coupon, plus
\* the tip (a cent is 10000 units; a subtotal in cents times a percentage
\* in hundredths of a percent is the discount in units)
ReferenceTotal(order_data, coupon_id) ==
    LET subtotal == LinesTotal(order_data.items)
        discount == IF coupon_id = NULL THEN 0
                    ELSE subtotal * coupons[coupon_id].discount_percentage
    IN  (subtotal * 10000 - discount) + order_data.tip_amount

\* C20: the total that create_order stores is the reference computation
\* to the cent: it differs from the reference total by no more than half a
\* cent, so it equals it whenever the reference total is a whole number of
\* cents; the coupon of the order is the one the request names.  Checked
\* for every cart of up to MaxLines lines of m1 and m2 with quantities up
\* to MaxQuantity, each tip and with and without the coupon DISCOUNT10.
C20_TotalIsReferenceTotal ==
    \A u \in UserIds, order_data \in PricedOrders :
        LET out == create_order(order_data, users[u])
        IN  out.response = OK
            => LET order == out.orders[next_order_id]
                   reference == ReferenceTotal(order_data, order.coupon_id)
               IN  /\ order.total_amount * 10000 - reference \in -5000..5000
                   /\ order_data.coupon_code = NULL
                      <=> order.coupon_id = NULL
                   /\ order_data.coupon_code # NULL
                      => coupons[order.coupon_id].code
                            = order_data.coupon_code

\* C20 witness: the order of one meal at 15.99 with a tip of 5.00 and no
\* coupon has the total 20.99.
C20_Witness ==
    \E o \in DOMAIN orders :
        /\ orders[o].items = <<[meal_id |-> "m1", quantity |-> 1,
                               price_at_order |-> 1599]>>
        /\ orders[o].tip_amount = 500
        /\ orders[o].coupon_id = NULL
        /\ orders[o].total_amount = 2099

\* the reference total rounded once, half up, to cents
RoundHalfUp(micro) == (micro + 5000) \div 10000

\* C21: the total that create_order stores is the exact total (the
\* subtotal, less the discount, plus the tip) rounded to 2 decimal places
\* once, half up; one meal at 15.99 with the 10% coupon and no tip is stored
\* with the total 14.39.  Checked for every cart of up to MaxLines lines of
\* m1 and m2 with quantities up to MaxQuantity, each tip and with and
\* without the coupon DISCOUNT10.
C21_TotalIsRoundedHalfUpOnce ==
    \A order_data \in PricedOrders :
        LET out == create_order(order_data, users["c1"])
        IN  out.response = OK
            => LET order == out.orders[next_order_id]
               IN  /\ order.total_amount
                         = RoundHalfUp(ReferenceTotal(order_data,
                                                      order.coupon_id))
                   /\ (/\ order_data.items
                             = <<[meal_id |-> "m1", quantity |-> 1]>>
                       /\ meals["m1"].price = 1599
                       /\ order_data.coupon_code = "DISCOUNT10"
                       /\ coupons[order.coupon_id].discount_percentage = 1000
                       /\ order_data.tip_amount = 0)
                      => order.total_amount = 1439

\* the exchanges of two neighbouring lines of a cart of n lines; every
\* order of the lines is reached by a sequence of them
LineSwaps ==
    [n \in 1..MaxLines |->
        {[i \in 1..n |-> IF i = j THEN j + 1 ELSE IF i = j + 1 THEN j ELSE i] :
            j \in 1..(n - 1)}]

\* the request with its cart lines in the order p
Permuted(order_data, p) ==
    [order_data EXCEPT
        !.items = [i \in 1..Len(order_data.items) |->
                      order_data.items[p[i]]]]

\* what create_order answers and, if it stores the order, the total and the
\* tip of the order
Priced(order_data) ==
    LET out == create_order(order_data, users["c1"])
    IN  IF out.response # OK THEN [response |-> out.response]
        ELSE LET order == out.orders[next_order_id]
             IN  [response |-> OK, total_amount |-> order.total_amount,
                  tip_amount |-> order.tip_amount]

\* C22: the total does not depend on the order of the cart lines: for
\* every cart of up to MaxLines lines of m1 and m2 with quantities up to
\* MaxQuantity, each tip and with and without the coupon DISCOUNT10 that
\* create_order accepts, create_order accepts the cart with any two
\* neighbouring lines exchanged as well and stores the same total and the
\* same tip; the exchanged cart is again one of these carts, so the same
\* holds for the lines in any order.
C22_TotalIsOrderIndependent ==
    \A order_data \in PricedOrders :
        LET priced == Priced(order_data)
        IN  priced.response = OK
            => \A p \in LineSwaps[Len(order_data.items)] :
                   /\ Permuted(order_data, p) \in PricedOrders
                   /\ Priced(Permuted(order_data, p)) = priced

\* C22 witness: an order of 1 x m1 and 2 x m2 is stored, in either order
\* of its lines, and create_order gives the cart with the lines the other
\* way round the total that the order has.
C22_Witness ==
    \E o \in DOMAIN orders :
        LET order == orders[o]
            swapped == [restaurant_id |-> order.restaurant_id,
                        items |-> <<[meal_id |-> order.items[2].meal_id,
                                     quantity |-> order.items[2].quantity],
                                    [meal_id |-> order.items[1].meal_id,
                                     quantity |-> order.items[1].quantity]>>,
                        tip_amount |-> 1005000,
                        coupon_code |-> NULL]
            out == create_order(swapped, users["c1"])
        IN  /\ Len(order.items) = 2
            /\ order.items[1].meal_id # order.items[2].meal_id
            /\ order.status = PLACED
            /\ meals["m1"].price = order.items[1].price_at_order
               \/ meals["m1"].price = order.items[2].price_at_order
            /\ out.response = OK
            /\ out.orders[next_order_id].total_amount = order.total_amount

\* the sum of price_at_order x quantity over the items of an order, in cents
RECURSIVE SnapshotTotal(_)
SnapshotTotal(items) ==
    IF items = <<>> THEN 0
    ELSE Head(items).price_at_order * Head(items).quantity
         + SnapshotTotal(Tail(items))

\* the total of an order recomputed from what is stored, in units of 10^-6:
\* the subtotal of its items, less the discount of its coupon if it has
\* one, plus its tip
RecomputedTotal(order) ==
    LET subtotal == SnapshotTotal(order.items)
        discount == IF order.coupon_id = NULL THEN 0
                    ELSE subtotal * coupons[order.coupon_id].discount_percentage
    IN  subtotal * 10000 - discount + order.tip_amount * 10000

\* C23: in every reachable state the stored total of every order is the
\* total recomputed from its price_at_order snapshots and quantities, the
\* discount of its coupon and its stored tip (to the cent: the two differ by
\* no more than a cent, whichever way the total and the tip were rounded).
C23_StoredTotalIsRecomputable ==
    \A o \in DOMAIN orders :
        orders[o].total_amount * 10000 - RecomputedTotal(orders[o])
           \in -10000..10000

\* carts of up to MaxLines lines of m1 and m2 with quantities up to
\* MaxQuantity, no tip, no coupon
ItemOrders ==
    OrderCreate({"r1"}, CartLines({"m1", "m2"}, 1..MaxQuantity), {0}, {NULL})

\* the items of an order that create_order stores are the lines of the
\* cart, each with the cart's quantity and the catalog price of its meal at
\* that instant
ItemsAreSnapshots ==
    \A order_data \in ItemOrders :
        LET out == create_order(order_data, users["c1"])
        IN  out.response = OK
            => LET items == out.orders[next_order_id].items
               IN  /\ Len(items) = Len(order_data.items)
                   /\ \A i \in 1..Len(items) :
                          /\ items[i].meal_id = order_data.items[i].meal_id
                          /\ items[i].quantity = order_data.items[i].quantity
                          /\ items[i].price_at_order
                                = meals[items[i].meal_id].price

\* C24: order items are frozen snapshots: an item that create_order stores
\* has the catalog price of its meal at that instant as price_at_order and
\* the quantity of the cart line; every stored quantity is greater than 0;
\* and no step (a change of the price of a meal, blocking or unblocking a
\* meal, a status transition, another creation) changes the items of an
\* order that exists before and after it.
C24_ItemsAreFrozen ==
    /\ [](/\ ItemsAreSnapshots
          /\ \A o \in DOMAIN orders :
                 \A i \in 1..Len(orders[o].items) :
                     orders[o].items[i].quantity > 0)
    /\ [][\A o \in DOMAIN orders \cap DOMAIN orders' :
              orders'[o].items = orders[o].items]_vars

\* C24 witness: an order of meal m1 taken at 15.99 has been moved on to
\* processing, and m1 now costs 17.99 and is blocked; the item still has
\* price_at_order 15.99.
C24_Witness ==
    \E o \in DOMAIN orders :
        /\ orders[o].items[1].meal_id = "m1"
        /\ orders[o].items[1].price_at_order = 1599
        /\ orders[o].status = PROCESSING
        /\ meals["m1"].price = 1799
        /\ meals["m1"].is_blocked

\* the fields of an order that a status update leaves alone
FrameFields ==
    {"id", "customer_id", "restaurant_id", "coupon_id", "total_amount",
     "tip_amount", "items"}

C26_OrderReferencesNeverChange ==
    [][\A o \in DOMAIN orders \cap DOMAIN orders' :
           /\ orders'[o].customer_id = orders[o].customer_id
           /\ orders'[o].restaurant_id = orders[o].restaurant_id
           /\ orders'[o].coupon_id = orders[o].coupon_id]_vars

\* C27: an order is removed only by an administrator: in every reachable
\* state, for every principal who is a customer or a restaurant owner,
\* neither delete_order of any order nor delete_restaurant of any
\* restaurant (the owner's own included) removes an order that exists.
C27_OnlyAdministratorsRemoveOrders ==
    \A u \in UserIds :
        users[u].role # ADMIN
        => /\ \A o \in OrderIds :
                  DOMAIN orders \subseteq DOMAIN delete_order(o, users[u]).orders
           /\ \A r \in RestaurantIds :
                  DOMAIN orders
                     \subseteq DOMAIN delete_restaurant(r, users[u]).orders

C29_MyOrdersAreTheCallersOrders ==
    \A u \in UserIds :
        LET out == list_my_orders(users[u])
        IN  /\ users[u].role = CUSTOMER
               => /\ out.response = OK
                  /\ \A o \in DOMAIN orders :
                         orders[o] \in out.body
                            <=> orders[o].customer_id = u
                  /\ \A row \in out.body :
                         /\ row.customer_id = u
                         /\ row.id \in DOMAIN orders
                         /\ row = orders[row.id]
            /\ users[u].role # CUSTOMER
               => /\ out.response.status_code = Forbidden
                  /\ out.body = {}

\* C29 witness: customer c2 has an order and customer c1 has none; c1 has
\* just listed their orders and got 200 with an empty list.
C29_Witness ==
    /\ \E o \in DOMAIN orders : orders[o].customer_id = "c2"
    /\ \A o \in DOMAIN orders : orders[o].customer_id # "c1"
    /\ response = [status_code |-> 200, detail |-> <<"OK">>, body |-> {}]

\* C30: every order has total amount >= tip amount >= 0: every order of
\* every reachable state, and the order that create_order stores for every
\* cart of up to MaxLines lines of m1 and m2 with quantities up to
\* MaxQuantity, each tip and with and without the coupon DISCOUNT10, whose
\* discount is between 0 and 100 percent.
C30_TotalAtLeastTip ==
    /\ \A k \in DOMAIN coupons :
           /\ coupons[k].discount_percentage > 0
           /\ coupons[k].discount_percentage <= 10000
    /\ \A o \in DOMAIN orders :
           /\ orders[o].total_amount >= orders[o].tip_amount
           /\ orders[o].tip_amount >= 0
    /\ \A order_data \in PricedOrders :
           LET out == create_order(order_data, users["c1"])
           IN  out.response = OK
               => /\ out.orders[next_order_id].total_amount
                        >= out.orders[next_order_id].tip_amount
                  /\ out.orders[next_order_id].tip_amount >= 0

\* C30 witness: an order of one meal at 15.99 placed with a tip of 5.00
\* while coupon DISCOUNT10 gives 100%: the discounted subtotal is 0 and the
\* total is the tip, 5.00.
C30_Witness ==
    \E o \in DOMAIN orders :
        /\ orders[o].coupon_id = "k1"
        /\ orders[o].items = <<[meal_id |-> "m1", quantity |-> 1,
                               price_at_order |-> 1599]>>
        /\ orders[o].tip_amount = 500
        /\ orders[o].total_amount = 500

(***************************************************************************)
(* C31: getOrder is a pure read.  Whoever calls it for whichever order id, *)
(* the request changes nothing of the store, and over every step that      *)
(* writes nothing to the store the data getOrder returns to each principal *)
(* for each order id stay the same, so two calls with no write in between  *)
(* return identical data.                                                  *)
(***************************************************************************)
StoredState == <<engine, users, restaurants, meals, coupons, orders,
                 next_order_id, session>>

C36_CustomersReadOnlyTheirOrders ==
    /\ \A u \in DOMAIN users, order_id \in DOMAIN orders :
          (users[u].role = CUSTOMER /\ orders[order_id].customer_id # u) =>
             LET out == Authenticated(u, get_order(order_id, users[u]))
             IN  out.response.status_code = Forbidden /\ out.body = {}
    /\ \A u \in DOMAIN users, skip \in 0..1, limit \in {1, DefaultLimit} :
          users[u].role = CUSTOMER =>
             Authenticated(u, list_orders(skip, limit, users[u])).body =
                {orders[o] : o \in {x \in DOMAIN orders :
                                       orders[x].customer_id = u}}
    /\ \A u \in DOMAIN users, restaurant_id \in DOMAIN restaurants :
          (/\ users[u].role # ADMIN
           /\ restaurants[restaurant_id].owner_id # u) =>
             LET out == Authenticated(u,
                            list_restaurant_orders(restaurant_id,
                                                   users[u]))
             IN  out.response.status_code = Forbidden /\ out.body = {}

\* customer c2 has asked for an order of customer c1 and was refused
C36_Witness ==
    /\ 1 \in DOMAIN orders
    /\ orders[1].customer_id = "c1"
    /\ response = Rendered(get_order(1, users["c2"]))
    /\ response = HTTPException(Forbidden, <<"Not your order">>)

(***************************************************************************)
(* C33: a customer can never create a restaurant.  createRestaurant        *)
(* succeeds only for a principal whose role is restaurant_owner or admin;  *)
(* when it succeeds it adds one restaurant, owned by the calling           *)
(* principal, and leaves the other restaurants as they are; a customer's   *)
(* attempt fails with Forbidden and creates nothing.  So the owner of      *)
(* every restaurant of the store is a restaurant owner or an               *)
(* administrator.                                                          *)
(***************************************************************************)
C33_CustomersCreateNoRestaurant ==
    /\ \A u \in DOMAIN users, restaurant_data \in RestaurantCreate :
             LET out == create_restaurant(restaurant_data, users[u])
                 added == DOMAIN out.restaurants \ DOMAIN restaurants
             IN  /\ users[u].role = CUSTOMER =>
                       /\ out.response.status_code = Forbidden
                       /\ out.restaurants = restaurants
                 /\ out.response = OK =>
                       /\ users[u].role \in {RESTAURANT_OWNER, ADMIN}
                       /\ Cardinality(added) = 1
                       /\ \A x \in added : out.restaurants[x].owner_id = u
                       /\ \A x \in DOMAIN restaurants :
                             out.restaurants[x] = restaurants[x]
                 /\ out.response # OK => out.restaurants = restaurants
    /\ \A x \in DOMAIN restaurants :
          users[restaurants[x].owner_id].role \in {RESTAURANT_OWNER, ADMIN}

\* the administrator has created a restaurant, and a customer's request to
\* create one has been refused after that
C33_Witness ==
    /\ \E x \in NewRestaurantIds \cap DOMAIN restaurants :
          restaurants[x].owner_id = "a1"
    /\ response = HTTPException(Forbidden,
                     <<"Only restaurant owners can create restaurants">>)

(***************************************************************************)
(* C32: user emails are unique in every reachable state.  Registering or   *)
(* creating a user with an email that a user holds fails with Bad Request  *)
(* and leaves the users as they are; and when a registration has looked    *)
(* for its email while it was free and another user has taken the email    *)
(* before the registration commits, the commit fails with an error and     *)
(* leaves the users as they are.                                           *)
(***************************************************************************)
C32_EmailsAreUnique ==
    /\ \A a, b \in DOMAIN users :
          a # b => users[a].email # users[b].email
    /\ \A user_data \in UserCreate :
          Found(get_user_by_email(user_data.email)) =>
             /\ create_user(user_data).response.status_code = InvalidState
             /\ create_user(user_data).users = users
    /\ \A s \in Sessions :
          (/\ session[s].pc = "registering"
           /\ Found(get_user_by_email(session[s].user_data.email))) =>
             LET out == insert_user(NewUser(FreshUserId,
                                            session[s].user_data))
             IN  /\ out.response.status_code >= 400
                 /\ out.users = users

\* two registrations with the same email have run concurrently: the user
\* of the first is stored and the commit of the second has failed
C32_Witness ==
    /\ Found(get_user_by_email("new@test.com"))
    /\ get_user_by_email("new@test.com").id \in NewUserIds
    /\ response = HTTPException(500, <<"IntegrityError">>)

(***************************************************************************)
(* C34: the first history row of every order names the customer of the     *)
(* order, and every later history row names a user who, when the row was   *)
(* added, was the customer of the order, the owner of the restaurant of    *)
(* the order or an administrator.                                          *)
(***************************************************************************)
C34_HistoryNamesWhoMayChange ==
    /\ [](\A o \in DOMAIN orders :
             orders[o].status_history[1].changed_by_user_id
                = orders[o].customer_id)
    /\ [][\A o \in DOMAIN orders \cap DOMAIN orders' :
             Len(orders'[o].status_history) > Len(orders[o].status_history)
             => LET by == LastRow(orders[o])'.changed_by_user_id
                IN  /\ by \in DOMAIN users
                    /\ \/ by = orders[o].customer_id
                       \/ by = restaurants[orders[o].restaurant_id].owner_id
                       \/ users[by].role = ADMIN]_vars

\* w2, who owns another restaurant, has moved the order on while they were
\* an administrator and is a restaurant owner again
C34_Witness ==
    /\ 1 \in DOMAIN orders
    /\ Len(orders[1].status_history) = 2
    /\ orders[1].status_history[2].changed_by_user_id = "w2"
    /\ users["w2"].role = RESTAURANT_OWNER

(***************************************************************************)
(* C37: a user who is blocked or inactive can perform no authenticated     *)
(* operation.  While the flag is set, get_current_user refuses the user    *)
(* with Forbidden, whenever the token was issued, and login with the       *)
(* user's email is refused; a request of the user to create an order or to *)
(* change a status is answered with that refusal and changes nothing; and  *)
(* no step adds an order of the user or a history row that names them.     *)
(***************************************************************************)
Barred(u) == ~users[u].is_active \/ users[u].is_blocked

Refusal == HTTPException(Forbidden, <<"User is inactive or blocked">>)

C37_BarredUsersDoNothing ==
    /\ [](\A u \in DOMAIN users :
             Barred(u) =>
                /\ get_current_user(u) = Refusal
                /\ get_current_admin(u) = Refusal
                /\ \A password \in {"secret", "wrong"} :
                      login([email |-> users[u].email,
                             password |-> password]).status_code = 401)
    /\ [][\A u \in DOMAIN users :
             Barred(u) =>
                /\ \A order_data \in AccountOrders :
                      CreateOrder(u, order_data) =>
                         response' = Refusal /\ UNCHANGED StoredState
                /\ \A order_id \in OrderIds, new_status \in OrderStatus :
                      UpdateOrderStatus(u, order_id, new_status) =>
                         response' = Refusal /\ UNCHANGED StoredState
                /\ \A o \in DOMAIN orders' \ DOMAIN orders :
                      orders'[o].customer_id # u
                /\ \A o \in DOMAIN orders \cap DOMAIN orders' :
                      Len(orders'[o].status_history)
                         > Len(orders[o].status_history)
                      => LastRow(orders[o])'.changed_by_user_id # u]_vars

\* customer c1 has placed an order, has been blocked, and their request
\* after that has been refused
C37_Witness ==
    /\ 1 \in DOMAIN orders
    /\ orders[1].customer_id = "c1"
    /\ users["c1"].is_blocked
    /\ response = Refusal

(***************************************************************************)
(* C35: the status machine is acyclic and bounded.  With requests handled  *)
(* one after the other, no order returns to a status it has left (the      *)
(* statuses of its history are all different), no order has more than 5    *)
(* history rows, that is more than 4 successful transitions, and for every *)
(* order whose status is neither canceled nor received some user may make  *)
(* some transition, so the order can still be moved on towards a terminal  *)
(* status.                                                                 *)
(***************************************************************************)
C35_StatusMachineIsAcyclicAndBounded ==
    \A o \in DOMAIN orders :
        LET h == Statuses(orders[o])
        IN  /\ \A i, j \in 1..Len(h) : i # j => h[i] # h[j]
            /\ Len(h) <= 5
            /\ orders[o].status \notin {CANCELED, RECEIVED} =>
                  \E u \in DOMAIN users, new_status \in OrderStatus :
                     /\ get_current_user(u) = OK
                     /\ update_order_status(o, new_status,
                                            users[u]).response = OK

\* a delivered order: three transitions made, and the fourth, to received,
\* open to its customer
C35_Witness ==
    \E o \in DOMAIN orders :
        /\ Statuses(orders[o]) = <<PLACED, PROCESSING, IN_ROUTE, DELIVERED>>
        /\ update_order_status(o, RECEIVED,
                               users[orders[o].customer_id]).response = OK

(***************************************************************************)
(* C38: the system never loses its last administrator through the deletion *)
(* of users.  After every request that deletes a user a user with role     *)
(* admin remains; the request by which the only administrator deletes      *)
(* themself fails and deletes nothing.                                     *)
(***************************************************************************)
Administrators == {x \in DOMAIN users : users[x].role = ADMIN}

C38_AnAdministratorRemains ==
    [][(Administrators # {} /\ DOMAIN users' # DOMAIN users)
          => Administrators' # {}]_vars

=============================================================================
